---- MODULE Spec2Model ----
(***************************************************************************)
(* A model of the digis-parser crawler: the retrying fetcher               *)
(* (core/base.py), the brand / exchange-rate refresh (models.py) and the   *)
(* batched harvest pipeline (service/__init__.py).                         *)
(*                                                                         *)
(* The program runs on one asyncio event loop, so every action below is    *)
(* the code a coroutine executes between two of its suspension points      *)
(* (await).  Durations are kept in half time-units (TimeScale) so that     *)
(* the pacing jitter of -0.5 is an integer.                                *)
(***************************************************************************)
EXTENDS Integers, Sequences, FiniteSets, TLC

----------------------------------------------------------------------------
(* Bounds of the model *)

BatchSize == 2       \* batch_size of start_parsing
MaxUrls == 3         \* longest externally supplied URL list
NumUrls == 2         \* distinct product URLs of the site
NumCallers == 2      \* coroutines that call _fetch directly (SpecFetch)
NumL1 == 2           \* level-1 category links of the distribution page

\* The values of max_workers (W) the program is constructed with.
WorkerLimits == {1, 2}
\* The site: its subcategory URLs, and the numeric labels of a pager.
Cats == {1, 2}
PageLabels == {1, 2}
\* A category that a coroutine walks directly (SpecWalk); the labels of its
\* pager have a gap.
DirectCats == {3}
DirectLabels == {1, 3}
Walks == Cats \cup DirectCats
LabelsOf(j) == IF j \in DirectCats THEN DirectLabels ELSE PageLabels
\* The pages 2..max_page of the categories.
Pages == {q \in Walks \X (2..3) : \E m \in LabelsOf(q[1]) : q[2] <= m}

----------------------------------------------------------------------------
(* Program constants *)

MaxAttempts == 3     \* for attempt in range(1, 4)
CooldownUnits == 60  \* await asyncio.sleep(60)
MinPaceUnits == 2    \* max(2.0, delay)
DefaultSleepTime == 3 \* sleep_time: int = 3
TimeScale == 2       \* state durations are in 1/TimeScale time-units

PaceJitter == {-1, 2}          \* random.uniform(-0.5, 1.0), in half units
BackoffJitter == {1, 5}        \* random.uniform(1, 5), in units

\* What one session.get can end with: a status class, asyncio.TimeoutError
\* or any other exception (a transport error, or a failure while the body
\* of the response is read).  "3xx" is a final status below 400 that is not
\* 2xx (a redirect the session does not follow, a 304); "other" is a status
\* of 400 or above that is none of 403, 404, 429, 5xx.
Responses ==
    {"2xx", "3xx", "403", "404", "429", "5xx", "other", "timeout", "error"}
\* response.raise_for_status() raises ClientResponseError for a status of
\* 400 or above and passes every other status.
Passes(r) == r \in {"2xx", "3xx"}
\* The answers the servers give during a whole run: one per branch of
\* _fetch's status handling.
RunResponses == {"2xx", "403", "404", "429", "5xx"}

Max(a, b) == IF a >= b THEN a ELSE b

RECURSIVE Pow2(_)
Pow2(n) == IF n = 0 THEN 1 ELSE 2 * Pow2(n - 1)

----------------------------------------------------------------------------
(* Callers of _fetch.  Every caller has at most one _fetch call at a time. *)

BrandsCall == <<"brands", 0, 0>>                       \* update_brands
RootCall == <<"root", 0, 0>>                           \* _extract_distribution
L1Calls == {<<"l1", i, 0>> : i \in 1..NumL1}           \* _extrac_level2
CatCalls == {<<"cat", j, 0>> : j \in Walks}            \* page 1 of a category
PageCalls == {<<"page", q[1], q[2]>> : q \in Pages}    \* page k of a category
ProdCalls == {<<"prod", i, 0>> : i \in 1..BatchSize}   \* parse_product
DirectCalls == {<<"call", i, 0>> : i \in 1..NumCallers}
Calls == {BrandsCall, RootCall} \cup L1Calls \cup CatCalls \cup PageCalls
             \cup ProdCalls \cup DirectCalls
\* The calls of the discovery and of the pagination.
CrawlCalls == {RootCall} \cup L1Calls \cup CatCalls \cup PageCalls

\* The BaseParser instances DigisAPI.__init__ and DigisManager.__init__
\* build; each has a semaphore of its own.
Parsers == {"generator", "manager", "extracter", "pagination", "product"}

\* The instance whose _fetch (and self.semaphore) a caller uses.
ParserOf(c) ==
    CASE c[1] = "brands" -> "generator"
      [] c[1] \in {"root", "l1"} -> "extracter"
      [] c[1] \in {"cat", "page"} -> "pagination"
      [] c[1] = "prod" -> "product"
      [] c[1] = "call" -> "manager"

\* The results session.get may have for caller c, and the jitters drawn.
Net(c) == IF c[1] = "call" THEN Responses ELSE RunResponses
PaceJitters(c) == IF c[1] = "call" THEN PaceJitter ELSE {0}
BackoffJitters(c) == IF c[1] = "call" THEN BackoffJitter ELSE {1}

VARIABLES
    max_workers, \* max_workers of DigisAPI.__init__, given to every parser
    sleep_time,  \* BaseParser.sleep_time
    urls_path,   \* start_parsing: urls_path, here the rows of that file
    fetch,       \* fetch[c]: the frame of caller c's _fetch call
    sem,         \* sem[p]: BaseParser.semaphore of parser instance p
    hist,        \* hist[c]: how often crawl caller c has called _fetch, and
                 \* what its call returned (history)
    pipe,        \* the semaphore created by start_parsing
    mpc,         \* where start_parsing is
    urls,        \* start_parsing: urls
    batch_start, \* start_parsing: batch_start
    stats,       \* start_parsing: successful, failed
    bstats,      \* _process_batch: successful, failed
    task,        \* task[t]: the _create_limited_task coroutine of batch slot t
    doneq,       \* finished tasks as_completed has not yielded yet
    cur,         \* the task whose row the consumer is writing
    sink,        \* the rows written to fp_csv
    upd,         \* upd.brands, upd.rate: the two coroutines of update()
    gen,         \* ProductGenerator: _brands updated?, _rub_exchange_rate
    err,         \* the exception start_parsing raised
    l1task,      \* l1task[i]: the _extrac_level2 task of level-1 link i
    l1q,         \* finished level-1 tasks as_completed has not yielded yet
    cat_urls,    \* start_extract_urls: urls
    ctask,       \* ctask[j]: the start_parsing_catrgory task of category j
    cq,          \* finished category tasks not yielded yet
    ptask,       \* ptask[<<j, k>>]: the _fetch task of page k of category j
    pq,          \* pq[j]: finished page tasks of category j not yielded yet
    product_urls, \* extract_all_urls: product_urls
    price_str,   \* _safe_extract_price: price_str, a sequence of characters
    price        \* what _safe_extract_price has returned
vars == <<max_workers, sleep_time, urls_path, fetch, sem, hist, pipe, mpc, urls, batch_start,
          stats, bstats, task, doneq, cur, sink, upd, gen, err, l1task, l1q,
          cat_urls, ctask, cq, ptask, pq, product_urls, price_str, price>>

confVars == <<max_workers, sleep_time, urls_path>>
fetchVars == <<fetch, sem, hist>>
harvestVars == <<pipe, urls, batch_start, stats, bstats, task, doneq, cur, sink>>
crawlVars == <<l1task, l1q, cat_urls, ctask, cq, ptask, pq, product_urls>>
priceVars == <<price_str, price>>
\* everything but the frames and the semaphores of _fetch
callerVars == <<confVars, priceVars, mpc, err, harvestVars, crawlVars, upd, gen>>

\* asyncio.run cancels every task that is left when main() has ended.
Running == mpc \notin {"done", "raised"}

----------------------------------------------------------------------------
(* asyncio.Semaphore: a counter and a FIFO queue of waiters *)

NewSemaphore(n) == [value |-> n, waiters |-> <<>>]

\* A semaphore whose acquire never waits.
NeverLocked(s) == FALSE

\* Semaphore.locked(): no free slot, or somebody is already waiting
Locked(s) == s.value = 0 \/ s.waiters # <<>>

Take(s) == [s EXCEPT !.value = @ - 1]
Enqueue(s, w) == [s EXCEPT !.waiters = Append(@, w)]
\* the first waiter wakes up and takes the slot that was released
WakeFirst(s) == [value |-> s.value - 1, waiters |-> Tail(s.waiters)]
\* A way out of `async with` that keeps the slot.
ReleaseLeaks(s) == s
Release(s) == [s EXCEPT !.value = @ + 1]

----------------------------------------------------------------------------
(* BaseParser._fetch *)

IdleCall ==
    [pc |-> "idle", attempt |-> 0, resp |-> "none", nreq |-> 0,
     sleep |-> 0, waits |-> <<>>, outcome |-> "pending"]

\* A pacing sleep without the floor of 2.
PaceDelayNoFloor(st, j) == st * TimeScale + j

\* delay = self.sleep_time + random.uniform(-0.5, 1.0); sleep(max(2.0, delay))
PaceDelay(st, j) == Max(MinPaceUnits * TimeScale, st * TimeScale + j)

\* A backoff that grows linearly with the attempt.
WaitTimeLinear(st, attempt, j) == (st * (attempt - 1) + j) * TimeScale

\* wait_time = self.sleep_time * (2 ** (attempt - 1)) + random.uniform(1, 5)
WaitTime(st, attempt, j) == (st * Pow2(attempt - 1) + j) * TimeScale

\* The slot is taken: the pacing sleep starts.
StartPacing(f, st, j) ==
    [f EXCEPT !.pc = "pace", !.sleep = PaceDelay(st, j),
              !.waits = Append(@, "pace")]

\* session.get(...) is issued for the current attempt.
SendRequest(f) ==
    [f EXCEPT !.pc = "get", !.sleep = 0, !.nreq = @ + 1]

\* return ... : the frame ends with its outcome.
Return(f, outcome) ==
    [f EXCEPT !.pc = "done", !.sleep = 0, !.outcome = outcome]

\* The top of an iteration with attempt > 1: the backoff sleep starts.
StartBackoff(f, st, j) ==
    [f EXCEPT !.attempt = @ + 1, !.pc = "backoff",
              !.sleep = WaitTime(st, f.attempt + 1, j),
              !.waits = Append(@, "backoff")]

\* _fetch with a loop of one iteration too many.
NextAttemptOffByOne(f, st, j) ==
    IF f.attempt <= MaxAttempts
    THEN StartBackoff(f, st, j)
    ELSE Return(f, "Exhausted")

\* `continue`, or falling out of an except clause: the next iteration of
\* `for attempt in range(1, 4)` starts with the backoff sleep, and after
\* the last iteration the call returns None ("all attempts exhausted").
NextAttempt(f, st, j) ==
    IF f.attempt < MaxAttempts
    THEN StartBackoff(f, st, j)
    ELSE Return(f, "Exhausted")

\* The response is in: the frame remembers it, and no sleep has followed
\* it yet.
Received(f, r) == [f EXCEPT !.resp = r, !.waits = <<>>]

\* A 429 branch that sleeps only when an attempt is left.
StartCooldownUnlessLast(f) ==
    IF f.attempt < MaxAttempts
    THEN [f EXCEPT !.pc = "cooldown", !.sleep = CooldownUnits * TimeScale,
                   !.waits = Append(@, "cooldown")]
    ELSE Return(f, "Exhausted")

\* status == 429: the 60-unit sleep starts.
StartCooldown(f) ==
    [f EXCEPT !.pc = "cooldown", !.sleep = CooldownUnits * TimeScale,
              !.waits = Append(@, "cooldown")]

\* _fetch without the 403 branch: raise_for_status raises and the error
\* falls into the last else of the ClientResponseError clause.
OnResponseRetry403(f, r, st, j) ==
    LET g == Received(f, r)
    IN CASE r = "429" -> StartCooldown(g)
         [] Passes(r) -> Return(g, "Document")
         [] r = "404" -> Return(g, "NotFound")
         [] OTHER -> NextAttempt(g, st, j)

\* _fetch without the 404 branch of the ClientResponseError clause.
OnResponseRetry404(f, r, st, j) ==
    LET g == Received(f, r)
    IN CASE r = "429" -> StartCooldown(g)
         [] r = "403" -> Return(g, "Blocked")
         [] Passes(r) -> Return(g, "Document")
         [] OTHER -> NextAttempt(g, st, j)

\* _fetch without the TimeoutError clause in front of `except Exception`,
\* where the latter gives up.
OnResponseTimeoutFatal(f, r, st, j) ==
    LET g == Received(f, r)
    IN CASE r = "429" -> StartCooldown(g)
         [] r = "403" -> Return(g, "Blocked")
         [] Passes(r) -> Return(g, "Document")
         [] r = "404" -> Return(g, "NotFound")
         [] r = "timeout" -> Return(g, "Exhausted")
         [] OTHER -> NextAttempt(g, st, j)

\* _fetch with the 429 branch reduced to `continue`.
OnResponseNoCooldown(f, r, st, j) ==
    LET g == Received(f, r)
    IN CASE r = "403" -> Return(g, "Blocked")
         [] Passes(r) -> Return(g, "Document")
         [] r = "404" -> Return(g, "NotFound")
         [] OTHER -> NextAttempt(g, st, j)

\* What _fetch does with the result r of session.get: the status tests of
\* the `async with` body and the except clauses.
OnResponse(f, r, st, j) ==
    LET g == Received(f, r)
    IN CASE r = "429" -> StartCooldown(g)
         [] r = "403" -> Return(g, "Blocked")
         [] Passes(r) -> Return(g, "Document")
         [] r = "404" -> Return(g, "NotFound")
         [] OTHER -> NextAttempt(g, st, j)

\* A _fetch that hands the 403 to its caller as a value of its own.
SoupTellsBlocked(f) ==
    IF f.outcome = "Document" THEN "Document"
    ELSE IF f.outcome = "Blocked" THEN "Blocked" ELSE "None"

\* The value the caller receives: a BeautifulSoup document or None.
Soup(f) == IF f.outcome = "Document" THEN "Document" ELSE "None"

\* The history of a caller that has not called yet, that calls, and whose
\* call returns soup.
NoHist == [calls |-> 0, soup |-> "pending"]
Called(h, c) ==
    IF c \in CrawlCalls THEN [h EXCEPT ![c].calls = @ + 1] ELSE h
Answered(h, c, soup) ==
    IF c \in CrawlCalls THEN [h EXCEPT ![c].soup = soup] ELSE h

\* A caller calls self._fetch(url): `async with self.semaphore` either takes
\* a slot at once and starts the pacing sleep, or suspends in the queue.
EnterFetch(c) ==
    LET p == ParserOf(c) IN
    /\ hist' = Called(hist, c)
    /\ IF Locked(sem[p])
       THEN /\ sem' = [sem EXCEPT ![p] = Enqueue(@, c)]
            /\ fetch' = [fetch EXCEPT ![c] = [IdleCall EXCEPT !.pc = "acquire"]]
       ELSE /\ sem' = [sem EXCEPT ![p] = Take(@)]
            /\ \E j \in PaceJitters(c) :
                   fetch' = [fetch EXCEPT ![c] = StartPacing(IdleCall, sleep_time, j)]

----------------------------------------------------------------------------
(* ProductGenerator.update: update_brands and update_exchange_rate run as  *)
(* the two coroutines of one asyncio.gather(..., return_exceptions=True).  *)

RateResults == {"rate", "norate", "ClientError", "raise"}
NoRate == 0          \* _rub_exchange_rate is None
SomeRate == 9000     \* Decimal('90.00'), in hundredths

\* start_parsing begins: update() starts both coroutines.  update_brands
\* calls _fetch(SUPPLIERS_URL), update_exchange_rate calls session.get
\* directly (no semaphore, no pacing, no retry).
StartParsing ==
    /\ mpc = "init"
    /\ mpc' = "update"
    /\ EnterFetch(BrandsCall)
    /\ upd' = [brands |-> "fetch", rate |-> "get"]
    /\ UNCHANGED <<confVars, priceVars, err, harvestVars, crawlVars, gen>>

\* How a lookup of update() has ended: it has stored its value, or it has
\* ended without one (a warning or an error is logged, an exception is
\* kept by gather).
LookupEnds == {"ok", "failed"}

\* update_brands resumes with the result of its _fetch.
UpdateBrands(soup) ==
    /\ gen' = [gen EXCEPT !.brands = IF soup = "Document" THEN TRUE ELSE @]
    /\ upd' = [upd EXCEPT !.brands = IF soup = "Document" THEN "ok" ELSE "failed"]
    /\ UNCHANGED <<confVars, priceVars, mpc, err, harvestVars, crawlVars>>

\* update() without return_exceptions: what update_exchange_rate raises
\* leaves gather, update and start_parsing.
UpdateExchangeRateFatal ==
    /\ upd.rate = "get"
    /\ \E r \in RateResults :
           /\ gen' = [gen EXCEPT !.rate = IF r = "rate" THEN SomeRate ELSE @]
           /\ upd' = [upd EXCEPT !.rate = IF r = "rate" THEN "ok" ELSE "failed"]
           /\ mpc' = IF r = "raise" THEN "raised" ELSE mpc
    /\ UNCHANGED <<confVars, priceVars, fetchVars, err, harvestVars, crawlVars>>

\* update_exchange_rate resumes with the answer of the rate service; a
\* ClientError is logged, any other exception is raised into gather.
UpdateExchangeRate ==
    /\ upd.rate = "get"
    /\ \E r \in RateResults :
           /\ gen' = [gen EXCEPT !.rate = IF r = "rate" THEN SomeRate ELSE @]
           /\ upd' = [upd EXCEPT !.rate = IF r = "rate" THEN "ok" ELSE "failed"]
    /\ UNCHANGED <<confVars, priceVars, fetchVars, mpc, err, harvestVars, crawlVars>>

----------------------------------------------------------------------------
(* tools.extract_number / get_integer / get_num and                        *)
(* ProductGenerator._safe_extract_price.  A text is a sequence of          *)
(* characters; "er" and "ER" stand for the small and the capital Cyrillic  *)
(* letter er (RUB_SYMBOL is the small one).                                *)

DigitChars == <<"0", "1", "2", "3", "4", "5", "6", "7", "8", "9">>
IsDigit(c) == \E i \in 1..Len(DigitChars) : DigitChars[i] = c
DigitVal(c) == (CHOOSE i \in 1..Len(DigitChars) : DigitChars[i] = c) - 1

\* str.lower() on the letters of the model's alphabet
Lower(c) ==
    CASE c = "ER" -> "er"
      [] c = "U" -> "u"
      [] c = "S" -> "s"
      [] c = "D" -> "d"
      [] OTHER -> c

Chars(s) == {s[i] : i \in 1..Len(s)}

\* str.replace(c, '')
Without(s, c) == SelectSeq(s, LAMBDA x : x # c)

IsDigitAt(s, i) == i \in 1..Len(s) /\ IsDigit(s[i])
\* [ ,]\d{3} at position i
GroupAt(s, i) ==
    /\ i \in 1..Len(s)
    /\ s[i] \in {" ", ","}
    /\ IsDigitAt(s, i + 1) /\ IsDigitAt(s, i + 2) /\ IsDigitAt(s, i + 3)

\* Where the longest run of digits (\d+ or \d*) from position i ends, and
\* where the longest run of groups ((?:[ ,]\d{3})*) from position i ends:
\* the position after the run.
RECURSIVE DigitsEnd(_, _)
DigitsEnd(s, i) == IF IsDigitAt(s, i) THEN DigitsEnd(s, i + 1) ELSE i
RECURSIVE GroupsEnd(_, _)
GroupsEnd(s, i) == IF GroupAt(s, i) THEN GroupsEnd(s, i + 4) ELSE i

\* The patterns of extract_number in the order they are tried: a number
\* with a fraction, an integer with separators, an integer; first with an
\* optional minus sign, then without.
NumberPatterns ==
    <<[kind |-> "fraction", signed |-> TRUE],
      [kind |-> "grouped", signed |-> TRUE],
      [kind |-> "integer", signed |-> TRUE],
      [kind |-> "fraction", signed |-> FALSE],
      [kind |-> "grouped", signed |-> FALSE],
      [kind |-> "integer", signed |-> FALSE]>>

\* The match of \d{1,3} and of the rest of the pattern from position d,
\* with n leading digits: the position after the match, or 0 when the rest
\* does not match.  A run of groups shorter than the longest cannot match:
\* it is followed by the separator of the next group.
RestEnd(kind, s, d, n) ==
    IF ~(\A k \in 0..(n - 1) : IsDigitAt(s, d + k)) THEN 0
    ELSE LET e == GroupsEnd(s, d + n) IN
         CASE kind = "fraction" ->
                  IF e \in 1..Len(s) /\ s[e] = "." /\ IsDigitAt(s, e + 1)
                  THEN DigitsEnd(s, e + 1) ELSE 0
           [] kind = "grouped" -> IF e > d + n THEN e ELSE 0

\* re.match of a pattern at position i: the position after the match, or
\* 0.  The quantifiers are greedy: the minus sign is taken when it is
\* there, and of 3, 2 and 1 leading digits the first that lets the rest
\* match.
MatchEnd(pat, s, i) ==
    LET d == IF pat.signed /\ i \in 1..Len(s) /\ s[i] = "-" THEN i + 1 ELSE i
    IN IF pat.kind = "integer"
       THEN IF IsDigitAt(s, d) THEN DigitsEnd(s, d) ELSE 0
       ELSE IF RestEnd(pat.kind, s, d, 3) # 0 THEN RestEnd(pat.kind, s, d, 3)
       ELSE IF RestEnd(pat.kind, s, d, 2) # 0 THEN RestEnd(pat.kind, s, d, 2)
       ELSE RestEnd(pat.kind, s, d, 1)

\* re.search(pattern, text).group(): the leftmost match, <<>> without one.
Search(pat, s) ==
    LET starts == {i \in 1..Len(s) : MatchEnd(pat, s, i) # 0}
    IN IF starts = {} THEN <<>>
       ELSE LET i == CHOOSE j \in starts : \A k \in starts : j <= k
            IN SubSeq(s, i, MatchEnd(pat, s, i) - 1)

RECURSIVE DigitsValue(_)
DigitsValue(s) ==
    IF s = <<>> THEN 0
    ELSE 10 * DigitsValue(SubSeq(s, 1, Len(s) - 1)) + DigitVal(s[Len(s)])

\* int(number_str), and int(float(number_str)) as get_integer makes it: the
\* digits in front of the point, with the sign.
ToInteger(number_str) ==
    LET neg == number_str # <<>> /\ Head(number_str) = "-"
        body == IF neg THEN Tail(number_str) ELSE number_str
        dots == {i \in 1..Len(body) : body[i] = "."}
        whole == IF dots = {} THEN body
                 ELSE SubSeq(body, 1, (CHOOSE i \in dots : TRUE) - 1)
    IN IF neg THEN 0 - DigitsValue(whole) ELSE DigitsValue(whole)

\* extract_number(text, default = default) with get_integer's int(): the
\* first pattern that is found anywhere in the text gives the number.
RECURSIVE ExtractFrom(_, _, _)
ExtractFrom(k, text, default) ==
    IF k > Len(NumberPatterns) THEN default
    ELSE LET m == Search(NumberPatterns[k], text) IN
         IF m # <<>>
         THEN ToInteger(Without(Without(m, " "), ","))
         ELSE ExtractFrom(k + 1, text, default)

\* get_num(text): get_integer(text, default = 0)
GetNum(text) == IF text = <<>> THEN 0 ELSE ExtractFrom(1, text, 0)

\* Decimal.quantize(Decimal('1'), rounding = ROUND_HALF_UP) of n / d:
\* to the nearest integer, a tie away from zero.
RoundHalfUp(n, d) ==
    IF n >= 0 THEN (2 * n + d) \div (2 * d)
    ELSE 0 - ((2 * (0 - n) + d) \div (2 * d))

\* The exchange rate is kept in hundredths (quantize(Decimal('0.01'))).
RateScale == 100
HalfRate == 9050     \* Decimal('90.50')

\* _safe_extract_price(price_str) with _rub_exchange_rate = rate
SafeExtractPrice(str, rate) ==
    LET cleaned_price == Without(str, " ")
        price_value == GetNum(cleaned_price)
    IN IF "er" \in {Lower(c) : c \in Chars(cleaned_price)} THEN price_value
       ELSE IF rate = NoRate THEN price_value
       ELSE RoundHalfUp(price_value * rate, RateScale)

NoPrice == [given |-> FALSE, value |-> 0]

\* update_exchange_rate has stored the rate r.
StoreRate(r) ==
    /\ mpc = "price"
    /\ ~price.given
    /\ gen.rate = NoRate
    /\ gen' = [gen EXCEPT !.rate = r]
    /\ UNCHANGED <<confVars, fetchVars, priceVars, mpc, err, harvestVars,
                   crawlVars, upd>>

\* create_product calls _safe_extract_price(price) and gets its value.
ExtractPrice ==
    /\ mpc = "price"
    /\ ~price.given
    /\ price' = [given |-> TRUE, value |-> SafeExtractPrice(price_str, gen.rate)]
    /\ UNCHANGED <<confVars, fetchVars, price_str, mpc, err, harvestVars,
                   crawlVars, upd, gen>>

----------------------------------------------------------------------------
(* DigisExractUrls, PaginationDigis, DigisManager (core/urls.py) *)

L1s == 1..NumL1
ProductUrls == 1..NumUrls

\* The pager of a listing page: absent, or the numeric labels among the
\* children of .pager-pages-list (the other children are dropped by isdigit).
NoPager == [present |-> FALSE, nums |-> {}]
Pagers(j) ==
    {NoPager} \cup {[present |-> TRUE, nums |-> n] : n \in {{}, {1}, LabelsOf(j)}}

\* A task and what it returned: a set of URLs, or the exception it raised;
\* for a category task also the pager its page 1 showed.
NoJob == [pc |-> "none", res |-> {}, exc |-> "none", pager |-> NoPager]
ReadyJob == [NoJob EXCEPT !.pc = "ready"]
Finished(job, res, exc) == [job EXCEPT !.pc = "finished", !.res = res, !.exc = exc]

SetMax(S) == CHOOSE m \in S : \A x \in S : x <= m

\* The site: the subcategory links of level-1 page i (none when the page
\* has no .rubric-list box), and the product links of the rows of page k of
\* a category's listing.  A category is linked from several level-1 pages
\* and a product is listed on several pages and in several categories: on
\* the pages of its number and in the category of its number.
LinksOf(i) == {{}, {j \in Cats : j <= i}}
PageUrls(j, k) == {u \in ProductUrls : u = j \/ u = k}

\* extract_all_urls has consumed every category task: the set is saved and
\* returned, start_parsing keeps len(...) of it in urls, and its next line,
\* len(urls), raises TypeError.
EndWalk ==
    /\ mpc' = "raised"
    /\ err' = "TypeError"

\* start_extract_urls has its set of subcategory URLs: extract_all_urls
\* creates one start_parsing_catrgory task per URL.
StartWalk(found) ==
    /\ ctask' = [j \in Walks |-> IF j \in found THEN ReadyJob ELSE NoJob]
    /\ IF found = {} THEN EndWalk ELSE mpc' = "walk" /\ err' = err

\* _extract_distribution that answers a missing page with an empty list.
RootMissingIgnored ==
    /\ StartWalk({})
    /\ UNCHANGED l1task

\* `if not soup: raise ValueError(...)`: the error leaves
\* start_extract_urls, extract_all_urls and start_parsing.
RootMissing ==
    /\ mpc' = "raised"
    /\ err' = "ValueError"
    /\ UNCHANGED <<l1task, ctask>>

\* _extract_distribution resumes with the distribution page: without it
\* ValueError is raised; with it one _extrac_level2 task is created per
\* level-1 link of the page.
RootDone(soup) ==
    /\ IF soup = "None"
       THEN RootMissing
       ELSE \E n \in 0..NumL1 :
                /\ l1task' = [i \in L1s |-> IF i <= n THEN ReadyJob ELSE NoJob]
                /\ IF n = 0
                   THEN StartWalk({})
                   ELSE mpc' = "lvl2" /\ UNCHANGED <<err, ctask>>
    /\ UNCHANGED <<confVars, priceVars, harvestVars, upd, gen, l1q, cat_urls, cq, ptask, pq,
                   product_urls>>

\* An _extrac_level2 task starts and calls _fetch(url).
L1Start(i) ==
    /\ Running
    /\ l1task[i].pc = "ready"
    /\ l1task' = [l1task EXCEPT ![i].pc = "fetch"]
    /\ EnterFetch(<<"l1", i, 0>>)
    /\ UNCHANGED <<confVars, priceVars, mpc, err, harvestVars, upd, gen, l1q, cat_urls,
                   ctask, cq, ptask, pq, product_urls>>

\* _extrac_level2 that adds its links to the set of start_extract_urls
\* itself.
L1FinishShares(i, soup) ==
    /\ \E links \in LinksOf(i) :
           /\ l1task' = [l1task EXCEPT ![i] =
                  Finished(@, IF soup = "None" THEN {} ELSE links, "none")]
           /\ cat_urls' = cat_urls \cup (IF soup = "None" THEN {} ELSE links)
    /\ l1q' = Append(l1q, i)
    /\ UNCHANGED <<confVars, priceVars, mpc, err, harvestVars, upd, gen, ctask, cq,
                   ptask, pq, product_urls>>

\* _extrac_level2 resumes: [] without a document or without links, the
\* subcategory links of the page otherwise.
L1Finish(i, soup) ==
    /\ \E links \in LinksOf(i) :
           l1task' = [l1task EXCEPT ![i] =
               Finished(@, IF soup = "None" THEN {} ELSE links, "none")]
    /\ l1q' = Append(l1q, i)
    /\ UNCHANGED <<confVars, priceVars, mpc, err, harvestVars, upd, gen, cat_urls, ctask, cq,
                   ptask, pq, product_urls>>

\* start_extract_urls that keeps the links of the last task only.
MergeL1Overwrite ==
    /\ mpc = "lvl2"
    /\ l1q # <<>>
    /\ LET i == Head(l1q)
           found == l1task[i].res
           left == {k \in L1s : l1task[k].pc \notin {"none", "consumed"}} \ {i}
       IN /\ l1q' = Tail(l1q)
          /\ l1task' = [l1task EXCEPT ![i].pc = "consumed"]
          /\ cat_urls' = found
          /\ IF left = {}
             THEN StartWalk(found)
             ELSE UNCHANGED <<mpc, err, ctask>>
    /\ UNCHANGED <<confVars, priceVars, fetchVars, harvestVars, upd, gen, cq, ptask, pq,
                   product_urls>>

\* start_extract_urls: `response_urls = await task; urls = urls.union(...)`
\* for the next finished task; after the last one the set is returned.
MergeL1 ==
    /\ mpc = "lvl2"
    /\ l1q # <<>>
    /\ LET i == Head(l1q)
           found == cat_urls \cup l1task[i].res
           left == {k \in L1s : l1task[k].pc \notin {"none", "consumed"}} \ {i}
       IN /\ l1q' = Tail(l1q)
          /\ l1task' = [l1task EXCEPT ![i].pc = "consumed"]
          /\ cat_urls' = found
          /\ IF left = {}
             THEN StartWalk(found)
             ELSE UNCHANGED <<mpc, err, ctask>>
    /\ UNCHANGED <<confVars, priceVars, fetchVars, harvestVars, upd, gen, cq, ptask, pq,
                   product_urls>>

\* A start_parsing_catrgory task starts and fetches page 1.
CatStart(j) ==
    /\ Running
    /\ ctask[j].pc = "ready"
    /\ ctask' = [ctask EXCEPT ![j].pc = "page1"]
    /\ EnterFetch(<<"cat", j, 0>>)
    /\ UNCHANGED <<confVars, priceVars, mpc, err, harvestVars, upd, gen, l1task, l1q,
                   cat_urls, cq, ptask, pq, product_urls>>

\* start_parsing_catrgory without its `if not soup` test: page 1's rows
\* are selected from None.
Page1MissingRaises(j) ==
    /\ ctask' = [ctask EXCEPT ![j] = Finished(@, {}, "AttributeError")]
    /\ cq' = Append(cq, j)
    /\ UNCHANGED ptask

\* `if not soup: return set()`
Page1Missing(j) ==
    /\ ctask' = [ctask EXCEPT ![j] = Finished(@, {}, "none")]
    /\ cq' = Append(cq, j)
    /\ UNCHANGED ptask

\* A walker that requests the pages whose labels the pager shows.
PageRangeShown(pager) == pager.nums \ {1}

\* range(2, max_page + 1), max_page being the largest numeric label
PageRange(pager) == 2..SetMax(pager.nums)

\* start_parsing_catrgory with max(..., default = 1): a pager without a
\* numeric label is a pager of one page.
CatPage1PagerDefault(j, soup) ==
    /\ IF soup = "None"
       THEN Page1Missing(j)
       ELSE \E found \in {PageUrls(j, 1)}, pager \in Pagers(j) :
                LET seen == [ctask[j] EXCEPT !.pager = pager] IN
                IF ~pager.present \/ pager.nums = {} \/ SetMax(pager.nums) < 2
                THEN /\ ctask' = [ctask EXCEPT ![j] = Finished(seen, found, "none")]
                     /\ cq' = Append(cq, j)
                     /\ UNCHANGED ptask
                ELSE /\ ctask' = [ctask EXCEPT ![j] =
                                     [seen EXCEPT !.pc = "pages", !.res = found]]
                     /\ ptask' = [q \in Pages |->
                                     IF q[1] = j /\ q[2] \in PageRange(pager)
                                     THEN [pc |-> "ready", soup |-> "None"]
                                     ELSE ptask[q]]
                     /\ UNCHANGED cq
    /\ UNCHANGED <<confVars, priceVars, mpc, err, harvestVars, upd, gen, l1task, l1q,
                   cat_urls, pq, product_urls>>

\* start_parsing_catrgory resumes with page 1: set() without a document;
\* the page's product URLs when there is no pager; ValueError from max([])
\* when the pager has no numeric label; otherwise one _fetch task per page
\* 2..max_page.
CatPage1(j, soup) ==
    /\ IF soup = "None"
       THEN Page1Missing(j)
       ELSE \E found \in {PageUrls(j, 1)}, pager \in Pagers(j) :
                LET seen == [ctask[j] EXCEPT !.pager = pager] IN
                IF ~pager.present
                THEN /\ ctask' = [ctask EXCEPT ![j] = Finished(seen, found, "none")]
                     /\ cq' = Append(cq, j)
                     /\ UNCHANGED ptask
                ELSE IF pager.nums = {}
                THEN /\ ctask' = [ctask EXCEPT ![j] = Finished(seen, {}, "ValueError")]
                     /\ cq' = Append(cq, j)
                     /\ UNCHANGED ptask
                ELSE IF SetMax(pager.nums) < 2
                THEN /\ ctask' = [ctask EXCEPT ![j] = Finished(seen, found, "none")]
                     /\ cq' = Append(cq, j)
                     /\ UNCHANGED ptask
                ELSE /\ ctask' = [ctask EXCEPT ![j] =
                                     [seen EXCEPT !.pc = "pages", !.res = found]]
                     /\ ptask' = [q \in Pages |->
                                     IF q[1] = j /\ q[2] \in PageRange(pager)
                                     THEN [pc |-> "ready", soup |-> "None"]
                                     ELSE ptask[q]]
                     /\ UNCHANGED cq
    /\ UNCHANGED <<confVars, priceVars, mpc, err, harvestVars, upd, gen, l1task, l1q,
                   cat_urls, pq, product_urls>>

PageCall(q) == <<"page", q[1], q[2]>>

\* The task of page q starts: it is a _fetch call with PAGEN_1 = q[2].
PageStart(q) ==
    /\ Running
    /\ ptask[q].pc = "ready"
    /\ ptask' = [ptask EXCEPT ![q].pc = "fetch"]
    /\ EnterFetch(PageCall(q))
    /\ UNCHANGED <<confVars, priceVars, mpc, err, harvestVars, upd, gen, l1task, l1q,
                   cat_urls, ctask, cq, pq, product_urls>>

\* The _fetch of page q has returned: its task is finished.
PageFinish(q, soup) ==
    /\ ptask' = [ptask EXCEPT ![q] = [pc |-> "finished", soup |-> soup]]
    /\ pq' = [pq EXCEPT ![q[1]] = Append(@, q)]
    /\ UNCHANGED <<confVars, priceVars, mpc, err, harvestVars, upd, gen, l1task, l1q,
                   cat_urls, ctask, cq, product_urls>>

\* start_parsing_catrgory: `soup = await task` for the next finished page.
\* Without a document a warning is logged and _extract_page_urls(None)
\* raises AttributeError; with one the page's URLs are merged, and after
\* the last page the set is returned.
CatMerge(j) ==
    /\ Running
    /\ ctask[j].pc = "pages"
    /\ pq[j] # <<>>
    /\ LET q == Head(pq[j])
           left == {r \in Pages : r[1] = j /\ ptask[r].pc \notin {"none", "consumed"}} \ {q}
       IN /\ pq' = [pq EXCEPT ![j] = Tail(@)]
          /\ ptask' = [ptask EXCEPT ![q] = [pc |-> "consumed", soup |-> "None"]]
          /\ IF ptask[q].soup = "None"
             THEN /\ ctask' = [ctask EXCEPT ![j] = Finished(@, {}, "AttributeError")]
                  /\ cq' = Append(cq, j)
             ELSE \E found \in {PageUrls(q[1], q[2])} :
                      IF left = {}
                      THEN /\ ctask' = [ctask EXCEPT ![j] =
                                           Finished(@, ctask[j].res \cup found, "none")]
                           /\ cq' = Append(cq, j)
                      ELSE /\ ctask' = [ctask EXCEPT ![j].res = @ \cup found]
                           /\ UNCHANGED cq
    /\ UNCHANGED <<confVars, priceVars, fetchVars, mpc, err, harvestVars, upd, gen, l1task,
                   l1q, cat_urls, product_urls>>

\* extract_all_urls that keeps the set of the last category only.
MergeCatOverwrite ==
    /\ mpc = "walk"
    /\ cq # <<>>
    /\ LET j == Head(cq)
           left == {k \in Walks : ctask[k].pc \notin {"none", "consumed"}} \ {j}
       IN /\ cq' = Tail(cq)
          /\ ctask' = [ctask EXCEPT ![j] = [NoJob EXCEPT !.pc = "consumed"]]
          /\ IF ctask[j].exc # "none"
             THEN /\ mpc' = "raised"
                  /\ err' = ctask[j].exc
                  /\ UNCHANGED product_urls
             ELSE /\ product_urls' = ctask[j].res
                  /\ IF left = {} THEN EndWalk ELSE UNCHANGED <<mpc, err>>
    /\ UNCHANGED <<confVars, priceVars, fetchVars, harvestVars, upd, gen, l1task, l1q,
                   cat_urls, ptask, pq>>

\* extract_all_urls with its return inside the loop: the set is returned
\* when the first category task has been merged.
MergeCatReturnsInLoop ==
    /\ mpc = "walk"
    /\ cq # <<>>
    /\ LET j == Head(cq)
       IN /\ cq' = Tail(cq)
          /\ ctask' = [ctask EXCEPT ![j] = [NoJob EXCEPT !.pc = "consumed"]]
          /\ IF ctask[j].exc # "none"
             THEN /\ mpc' = "raised"
                  /\ err' = ctask[j].exc
                  /\ UNCHANGED product_urls
             ELSE /\ product_urls' = product_urls \cup ctask[j].res
                  /\ EndWalk
    /\ UNCHANGED <<confVars, priceVars, fetchVars, harvestVars, upd, gen, l1task, l1q,
                   cat_urls, ptask, pq>>

\* extract_all_urls: `response = await task` for the next finished category
\* task: its exception is raised out of extract_all_urls and start_parsing,
\* or its set is merged into product_urls.
MergeCat ==
    /\ mpc = "walk"
    /\ cq # <<>>
    /\ LET j == Head(cq)
           left == {k \in Walks : ctask[k].pc \notin {"none", "consumed"}} \ {j}
       IN /\ cq' = Tail(cq)
          /\ ctask' = [ctask EXCEPT ![j] = [NoJob EXCEPT !.pc = "consumed"]]
          /\ IF ctask[j].exc # "none"
             THEN /\ mpc' = "raised"
                  /\ err' = ctask[j].exc
                  /\ UNCHANGED product_urls
             ELSE /\ product_urls' = product_urls \cup ctask[j].res
                  /\ IF left = {} THEN EndWalk ELSE UNCHANGED <<mpc, err>>
    /\ UNCHANGED <<confVars, priceVars, fetchVars, harvestVars, upd, gen, l1task, l1q,
                   cat_urls, ptask, pq>>

----------------------------------------------------------------------------
(* DigisAPI.start_parsing, _process_batch, _create_limited_task *)

IoResults == {"ok", "raise"}

Slots == 1..BatchSize
CallOf(t) == <<"prod", t, 0>>
NoTask == [pc |-> "none", url |-> 0, res |-> "pending"]
NoStats == [successful |-> 0, failed |-> 0]

Min(a, b) == IF a <= b THEN a ELSE b

\* batch_urls = urls[batch_start:batch_start + batch_size]
BatchUrls(us, bs) == SubSeq(us, bs + 1, Min(Len(us), bs + BatchSize))

\* A loop over the full batches only,
\* `range(0, len(urls) - batch_size + 1, batch_size)`.
EnterLoopFullBatches(bs) ==
    IF bs + BatchSize <= Len(urls')
    THEN LET b == BatchUrls(urls', bs) IN
         /\ mpc' = "consume"
         /\ task' = [t \in Slots |->
                        IF t <= Len(b)
                        THEN [pc |-> "ready", url |-> b[t], res |-> "pending"]
                        ELSE NoTask]
    ELSE /\ mpc' = "done"
         /\ task' = [t \in Slots |-> NoTask]

\* `for batch_start in range(0, len(urls), batch_size)` at index bs: either
\* _process_batch creates one coroutine per URL of the slice and
\* as_completed schedules them all, or the loop is over and the run ends.
EnterLoop(bs) ==
    IF bs < Len(urls')
    THEN LET b == BatchUrls(urls', bs) IN
         /\ mpc' = "consume"
         /\ task' = [t \in Slots |->
                        IF t <= Len(b)
                        THEN [pc |-> "ready", url |-> b[t], res |-> "pending"]
                        ELSE NoTask]
    ELSE /\ mpc' = "done"
         /\ task' = [t \in Slots |-> NoTask]

\* update() has returned.  With urls_path the URL list is read from it, the
\* semaphore is created and the output file is being opened; without it
\* extract_all_urls starts with the fetch of the distribution page.
UpdateDone ==
    /\ mpc = "update"
    /\ upd.brands \in LookupEnds /\ upd.rate \in LookupEnds
    /\ upd' = [brands |-> "idle", rate |-> "idle"]
    /\ IF urls_path.given
       THEN /\ urls' = urls_path.rows
            /\ pipe' = NewSemaphore(max_workers)
            /\ mpc' = "open"
            /\ UNCHANGED fetchVars
       ELSE /\ mpc' = "root"
            /\ EnterFetch(RootCall)
            /\ UNCHANGED <<urls, pipe>>
    /\ UNCHANGED <<confVars, priceVars, err, batch_start, stats, bstats, task, doneq, cur,
                   sink, gen, crawlVars>>

\* aiofiles.open returns; the header row is being written.
OpenSink ==
    /\ mpc = "open"
    /\ \E o \in IoResults :
           /\ mpc' = IF o = "ok" THEN "header" ELSE "raised"
           /\ err' = IF o = "ok" THEN err ELSE "IOError"
    /\ UNCHANGED <<confVars, priceVars, fetchVars, harvestVars, upd, gen, crawlVars>>

\* csv_writer.writerow(headers) returns; the batch loop starts.
WriteHeader ==
    /\ mpc = "header"
    /\ \E o \in IoResults :
           IF o = "ok"
           THEN /\ sink' = Append(sink, 0)
                /\ stats' = NoStats
                /\ batch_start' = 0
                /\ urls' = urls
                /\ err' = err
                /\ EnterLoop(0)
           ELSE /\ mpc' = "raised"
                /\ err' = "IOError"
                /\ UNCHANGED <<urls, sink, stats, batch_start, task>>
    /\ UNCHANGED <<confVars, priceVars, fetchVars, pipe, bstats, doneq, cur, upd, gen,
                   crawlVars>>

\* _create_limited_task without `async with semaphore`: every task of the
\* batch goes straight to parse_product.
TaskStartUnguarded(t) ==
    /\ Running
    /\ task[t].pc = "ready"
    /\ pipe' = Take(pipe)
    /\ task' = [task EXCEPT ![t].pc = "fetch"]
    /\ EnterFetch(CallOf(t))
    /\ UNCHANGED <<confVars, priceVars, mpc, err, urls, batch_start, stats, bstats, doneq,
                   cur, sink, upd, gen, crawlVars>>

\* A task of the batch starts: `async with semaphore` takes a slot of the
\* pipeline semaphore and parse_product calls _fetch, or the task queues.
TaskStart(t) ==
    /\ Running
    /\ task[t].pc = "ready"
    /\ IF Locked(pipe)
       THEN /\ pipe' = Enqueue(pipe, t)
            /\ task' = [task EXCEPT ![t].pc = "pipewait"]
            /\ UNCHANGED fetchVars
       ELSE /\ pipe' = Take(pipe)
            /\ task' = [task EXCEPT ![t].pc = "fetch"]
            /\ EnterFetch(CallOf(t))
    /\ UNCHANGED <<confVars, priceVars, mpc, err, urls, batch_start, stats, bstats, doneq,
                   cur, sink, upd, gen, crawlVars>>

\* A waiter of the pipeline semaphore wakes up with a slot.
TaskPipeAcquire(t) ==
    /\ Running
    /\ task[t].pc = "pipewait"
    /\ pipe.value > 0
    /\ pipe.waiters # <<>>
    /\ Head(pipe.waiters) = t
    /\ pipe' = WakeFirst(pipe)
    /\ task' = [task EXCEPT ![t].pc = "fetch"]
    /\ EnterFetch(CallOf(t))
    /\ UNCHANGED <<confVars, priceVars, mpc, err, urls, batch_start, stats, bstats, doneq,
                   cur, sink, upd, gen, crawlVars>>

ExtractResults == {"data", "raise"}

\* parse_product: None when _fetch gave no document or when an extractor
\* raised, the dict of fields otherwise.
ParseProduct(soup, e) ==
    IF soup = "None" THEN "None"
    ELSE IF e = "raise" THEN "None" ELSE "data"

\* _create_limited_task that writes the row of its product itself.
TaskFinishWrites(t, soup) ==
    /\ \E e \in ExtractResults :
           /\ task' = [task EXCEPT ![t].pc = "finished",
                                   ![t].res = ParseProduct(soup, e)]
           /\ sink' = IF ParseProduct(soup, e) = "data"
                      THEN Append(sink, task[t].url) ELSE sink
    /\ pipe' = Release(pipe)
    /\ doneq' = Append(doneq, t)
    /\ UNCHANGED <<confVars, priceVars, mpc, err, urls, batch_start, stats, bstats, cur,
                   upd, gen, crawlVars>>

\* _fetch has returned into parse_product; the fields are extracted, the
\* task leaves `async with semaphore` and finishes with its result.
TaskFinish(t, soup) ==
    /\ \E e \in ExtractResults :
           task' = [task EXCEPT ![t].pc = "finished",
                                ![t].res = ParseProduct(soup, e)]
    /\ pipe' = Release(pipe)
    /\ doneq' = Append(doneq, t)
    /\ UNCHANGED <<confVars, priceVars, mpc, err, urls, batch_start, stats, bstats, cur,
                   sink, upd, gen, crawlVars>>

\* The batch's counters after one more product succeeded or failed.
Count(st, o) ==
    IF o = "ok" THEN [st EXCEPT !.successful = @ + 1]
                ELSE [st EXCEPT !.failed = @ + 1]

\* start_parsing with `successful = batch_results['successful']`: the
\* counters restart with every batch.
EndIterationOverwrite(tk, bst) ==
    IF \E t \in Slots : tk[t].pc \notin {"none", "consumed"}
    THEN /\ mpc' = "consume"
         /\ bstats' = bst
         /\ task' = tk
         /\ UNCHANGED stats
    ELSE /\ mpc' = "pause"
         /\ bstats' = NoStats
         /\ task' = [t \in Slots |-> NoTask]
         /\ stats' = bst

\* _process_batch that returns when the first task of the batch has been
\* consumed, leaving the others to run.
EndIterationEarly(tk, bst) ==
    /\ mpc' = "pause"
    /\ bstats' = NoStats
    /\ task' = tk
    /\ stats' = [successful |-> stats.successful + bst.successful,
                 failed |-> stats.failed + bst.failed]

\* The end of one iteration of `async for task in as_completed(tasks)`:
\* with tasks left the loop waits for the next one; after the last one
\* _process_batch returns its counters, start_parsing adds them to its
\* own and sleeps 0.1 before the next batch.
EndIteration(tk, bst) ==
    IF \E t \in Slots : tk[t].pc \notin {"none", "consumed"}
    THEN /\ mpc' = "consume"
         /\ bstats' = bst
         /\ task' = tk
         /\ UNCHANGED stats
    ELSE /\ mpc' = "pause"
         /\ bstats' = NoStats
         /\ task' = [t \in Slots |-> NoTask]
         /\ stats' = [successful |-> stats.successful + bst.successful,
                      failed |-> stats.failed + bst.failed]

\* _process_batch that counts a task without data as failed.
ConsumeCountsMissing ==
    /\ mpc = "consume"
    /\ doneq # <<>>
    /\ LET t == Head(doneq)
           tk == [task EXCEPT ![t].pc = "consumed"]
       IN /\ doneq' = Tail(doneq)
          /\ IF task[t].res = "data"
             THEN \E o \in IoResults :
                      IF o = "ok"
                      THEN /\ mpc' = "write"
                           /\ cur' = t
                           /\ task' = tk
                           /\ UNCHANGED <<stats, bstats>>
                      ELSE /\ cur' = cur
                           /\ EndIteration(tk, Count(bstats, "raise"))
             ELSE /\ cur' = cur
                  /\ EndIteration(tk, Count(bstats, "raise"))
    /\ UNCHANGED <<confVars, priceVars, fetchVars, err, pipe, urls, batch_start, sink, upd,
                   gen, crawlVars>>

\* _process_batch without its try/except: an exception of create_product
\* leaves the batch and the run.
ConsumeUncaught ==
    /\ mpc = "consume"
    /\ doneq # <<>>
    /\ LET t == Head(doneq)
           tk == [task EXCEPT ![t].pc = "consumed"]
       IN /\ doneq' = Tail(doneq)
          /\ IF task[t].res = "data"
             THEN \E o \in IoResults :
                      IF o = "ok"
                      THEN /\ mpc' = "write"
                           /\ cur' = t
                           /\ task' = tk
                           /\ UNCHANGED <<stats, bstats>>
                      ELSE /\ mpc' = "raised"
                           /\ UNCHANGED <<cur, task, stats, bstats>>
             ELSE /\ cur' = cur
                  /\ EndIteration(tk, bstats)
    /\ UNCHANGED <<confVars, priceVars, fetchVars, err, pipe, urls, batch_start, sink, upd,
                   gen, crawlVars>>

\* as_completed yields the next finished task: product_data = await task.
\* No data: nothing is counted.  Data: create_product and
\* _get_product_row build the row, and the row is handed to writerow; an
\* exception there is counted as failed.
Consume ==
    /\ mpc = "consume"
    /\ doneq # <<>>
    /\ LET t == Head(doneq)
           tk == [task EXCEPT ![t].pc = "consumed"]
       IN /\ doneq' = Tail(doneq)
          /\ IF task[t].res = "data"
             THEN \E o \in IoResults :
                      IF o = "ok"
                      THEN /\ mpc' = "write"
                           /\ cur' = t
                           /\ task' = tk
                           /\ UNCHANGED <<stats, bstats>>
                      ELSE /\ cur' = cur
                           /\ EndIteration(tk, Count(bstats, "raise"))
             ELSE /\ cur' = cur
                  /\ EndIteration(tk, bstats)
    /\ UNCHANGED <<confVars, priceVars, fetchVars, err, pipe, urls, batch_start, sink, upd,
                   gen, crawlVars>>

\* A writer that keeps the rows in memory until the end of the run.
WriteRowBuffered ==
    /\ mpc = "write"
    /\ \E o \in IoResults : EndIteration(task, Count(bstats, o))
    /\ cur' = 0
    /\ UNCHANGED <<confVars, priceVars, fetchVars, err, pipe, urls, batch_start, doneq,
                   sink, upd, gen, crawlVars>>

\* await csv_writer.writerow(row) returns: successful += 1, or the
\* exception is counted as failed.
WriteRow ==
    /\ mpc = "write"
    /\ \E o \in IoResults :
           /\ sink' = IF o = "ok" THEN Append(sink, task[cur].url) ELSE sink
           /\ EndIteration(task, Count(bstats, o))
    /\ cur' = 0
    /\ UNCHANGED <<confVars, priceVars, fetchVars, err, pipe, urls, batch_start, doneq,
                   upd, gen, crawlVars>>

\* asyncio.sleep(0.1) returns: the next batch, or the end of the run.
NextBatch ==
    /\ mpc = "pause"
    /\ batch_start' = batch_start + BatchSize
    /\ urls' = urls
    /\ EnterLoop(batch_start + BatchSize)
    /\ UNCHANGED <<confVars, priceVars, fetchVars, err, pipe, stats, bstats, doneq, cur,
                   sink, upd, gen, crawlVars>>

----------------------------------------------------------------------------
(* The steps of _fetch *)

\* The coroutine that awaits caller c's _fetch goes on with its result.
Resume(c, soup) ==
    CASE c[1] = "brands" -> UpdateBrands(soup)
      [] c[1] = "root" -> RootDone(soup)
      [] c[1] = "l1" -> L1Finish(c[2], soup)
      [] c[1] = "cat" -> CatPage1(c[2], soup)
      [] c[1] = "page" -> PageFinish(<<c[2], c[3]>>, soup)
      [] c[1] = "prod" -> TaskFinish(c[2], soup)
      [] c[1] = "call" -> UNCHANGED callerVars

\* A waiter of self.semaphore wakes up with a slot.
FetchAcquire(c) ==
    /\ Running
    /\ fetch[c].pc = "acquire"
    /\ sem[ParserOf(c)].value > 0
    /\ sem[ParserOf(c)].waiters # <<>>
    /\ Head(sem[ParserOf(c)].waiters) = c
    /\ sem' = [sem EXCEPT ![ParserOf(c)] = WakeFirst(@)]
    /\ \E j \in PaceJitters(c) :
           fetch' = [fetch EXCEPT ![c] = StartPacing(@, sleep_time, j)]
    /\ UNCHANGED <<callerVars, hist>>

\* The pacing sleep ends: attempt 1 has no backoff and sends its request.
FetchPaced(c) ==
    /\ Running
    /\ fetch[c].pc = "pace"
    /\ fetch' = [fetch EXCEPT ![c] = SendRequest([@ EXCEPT !.attempt = 1])]
    /\ UNCHANGED <<callerVars, sem, hist>>

\* The backoff sleep of attempt 2 or 3 ends: the request is sent.
FetchBackedOff(c) ==
    /\ Running
    /\ fetch[c].pc = "backoff"
    /\ fetch' = [fetch EXCEPT ![c] = SendRequest(@)]
    /\ UNCHANGED <<callerVars, sem, hist>>

\* _fetch that gives its slot back for the time of the 60-unit sleep.
FetchStepFreesCooldown(c, g) ==
    IF g.pc = "done"
    THEN /\ sem' = [sem EXCEPT ![ParserOf(c)] = Release(@)]
         /\ fetch' = [fetch EXCEPT ![c] = IF c \in DirectCalls THEN g ELSE IdleCall]
         /\ hist' = Answered(hist, c, Soup(g))
         /\ Resume(c, Soup(g))
    ELSE /\ fetch' = [fetch EXCEPT ![c] = g]
         /\ sem' = IF g.pc = "cooldown"
                   THEN [sem EXCEPT ![ParserOf(c)] = Release(@)] ELSE sem
         /\ UNCHANGED <<hist, callerVars>>

\* The frame after a step of the retry loop.  A frame that returns leaves
\* `async with self.semaphore`, and the coroutine that awaits the call goes
\* on with the returned value in the same step (Resume, defined with the
\* callers); the frame of a coroutine that only calls _fetch is kept.
FetchStep(c, g) ==
    IF g.pc = "done"
    THEN /\ sem' = [sem EXCEPT ![ParserOf(c)] = Release(@)]
         /\ fetch' = [fetch EXCEPT ![c] = IF c \in DirectCalls THEN g ELSE IdleCall]
         /\ hist' = Answered(hist, c, Soup(g))
         /\ Resume(c, Soup(g))
    ELSE /\ fetch' = [fetch EXCEPT ![c] = g]
         /\ UNCHANGED <<sem, hist, callerVars>>

\* _fetch that raises on a 403 instead of returning None: the exception
\* leaves the coroutine that called it and ends the program.
FetchReceiveBlockedRaises(c) ==
    /\ Running
    /\ fetch[c].pc = "get"
    /\ \E r \in Net(c), j \in BackoffJitters(c) :
           IF r = "403"
           THEN /\ fetch' = [fetch EXCEPT ![c] = OnResponse(@, r, sleep_time, j)]
                /\ sem' = [sem EXCEPT ![ParserOf(c)] = Release(@)]
                /\ mpc' = "raised"
                /\ UNCHANGED <<confVars, priceVars, hist, err, harvestVars, crawlVars,
                               upd, gen>>
           ELSE FetchStep(c, OnResponse(fetch[c], r, sleep_time, j))

\* session.get completes with response r (a status, a timeout or an error).
FetchReceive(c) ==
    /\ Running
    /\ fetch[c].pc = "get"
    /\ \E r \in Net(c), j \in BackoffJitters(c) :
           FetchStep(c, OnResponse(fetch[c], r, sleep_time, j))

\* The 60-unit sleep after a 429 ends: `continue`.
FetchCooledDown(c) ==
    /\ Running
    /\ fetch[c].pc = "cooldown"
    /\ \E j \in BackoffJitters(c) :
           FetchStep(c, NextAttempt([fetch[c] EXCEPT !.sleep = 0], sleep_time, j))

\* A coroutine calls parser._fetch(url) directly.
CallFetch(c) ==
    /\ mpc = "direct"
    /\ fetch[c].pc = "idle"
    /\ EnterFetch(c)
    /\ UNCHANGED callerVars

----------------------------------------------------------------------------
(* The run *)

\* The rows of the file urls_path names: n URLs, repeating after NumUrls.
UrlList(n) == [i \in 1..n |-> ((i - 1) % NumUrls) + 1]

NoUrlsPath == [given |-> FALSE, rows |-> <<>>]
UrlsPaths == {NoUrlsPath} \cup {[given |-> TRUE, rows |-> UrlList(n)] : n \in 0..MaxUrls}

\* The objects as DigisAPI.__init__ leaves them, before start_parsing.
Constructed ==
    /\ fetch = [c \in Calls |-> IdleCall]
    /\ sem = [p \in Parsers |-> NewSemaphore(max_workers)]
    /\ hist = [c \in CrawlCalls |-> NoHist]
    /\ pipe = NewSemaphore(0)
    /\ urls = <<>>
    /\ batch_start = 0
    /\ stats = NoStats
    /\ bstats = NoStats
    /\ task = [t \in Slots |-> NoTask]
    /\ doneq = <<>>
    /\ cur = 0
    /\ sink = <<>>
    /\ upd = [brands |-> "idle", rate |-> "idle"]
    /\ gen = [brands |-> FALSE, rate |-> NoRate]
    /\ err = "none"
    /\ l1task = [i \in L1s |-> NoJob]
    /\ l1q = <<>>
    /\ cat_urls = {}
    /\ ctask = [j \in Walks |-> NoJob]
    /\ cq = <<>>
    /\ ptask = [q \in Pages |-> [pc |-> "none", soup |-> "None"]]
    /\ pq = [j \in Walks |-> <<>>]
    /\ product_urls = {}
    /\ price = NoPrice

\* main.py: DigisAPI(...).start_parsing(fp_csv, safe_urls, urls_path = ...)
Init ==
    /\ max_workers \in WorkerLimits
    /\ sleep_time = DefaultSleepTime
    /\ urls_path \in UrlsPaths
    /\ mpc = "init"
    /\ price_str = <<>>
    /\ Constructed

FetchNext ==
    \E c \in Calls :
        \/ FetchAcquire(c)
        \/ FetchPaced(c)
        \/ FetchBackedOff(c)
        \/ FetchReceive(c)
        \/ FetchCooledDown(c)

UpdateNext == StartParsing \/ UpdateExchangeRate \/ UpdateDone

CrawlNext ==
    \/ MergeL1
    \/ MergeCat
    \/ \E i \in L1s : L1Start(i)
    \/ \E j \in Cats : CatStart(j) \/ CatMerge(j)
    \/ \E q \in Pages : PageStart(q)

HarvestNext ==
    \/ OpenSink
    \/ WriteHeader
    \/ Consume
    \/ WriteRow
    \/ NextBatch
    \/ \E t \in Slots : TaskStart(t) \/ TaskPipeAcquire(t)

Next == UpdateNext \/ CrawlNext \/ HarvestNext \/ FetchNext

Spec == Init /\ [][Next]_vars

\* _fetch on its own: NumCallers coroutines call the _fetch of one parser,
\* with any sleep_time, any jitter and any answer of the network.
SleepTimes == {1, DefaultSleepTime}

InitFetch ==
    /\ max_workers \in WorkerLimits
    /\ sleep_time \in SleepTimes
    /\ urls_path = NoUrlsPath
    /\ mpc = "direct"
    /\ price_str = <<>>
    /\ Constructed

NextFetch == (\E c \in DirectCalls : CallFetch(c)) \/ FetchNext

SpecFetch == InitFetch /\ [][NextFetch]_vars

\* Two coroutines that call the _fetch of one parser, under the scheduling
\* of the event loop: every sleep ends, every request ends (with its answer
\* or with the 30-unit timeout of ClientTimeout(total=30)), and a waiter
\* of the semaphore whose turn has come is woken up: a step of _fetch that
\* can be taken is taken.
TwoCalls == {<<"call", i, 0>> : i \in {1, 2}}
InitFetchFair == InitFetch /\ sleep_time = DefaultSleepTime
NextFetchFair == (\E c \in TwoCalls : CallFetch(c)) \/ FetchNext
SpecFetchFair == InitFetchFair /\ [][NextFetchFair]_vars /\ WF_vars(FetchNext)

\* The same two coroutines with any sleep_time and in any interleaving:
\* a call and one other call, which is in flight, waits for a slot or
\* starts later.
SpecFetchPair == InitFetch /\ [][NextFetchFair]_vars

\* The harvest of an externally supplied URL list.  The event loop runs
\* every coroutine that is ready, every sleep ends and every request ends
\* (with its answer or with the 30-unit timeout): a step that can be taken
\* is taken.  No call waits for a parser's semaphore here: update_brands
\* is the generator's only call, and the pipeline semaphore admits no more
\* tasks than the product parser has slots.
InitHarvest == Init /\ urls_path.given
NextHarvest ==
    \/ UpdateNext
    \/ HarvestNext
    \/ \E c \in Calls :
           \/ FetchPaced(c)
           \/ FetchBackedOff(c)
           \/ FetchReceive(c)
           \/ FetchCooledDown(c)
SpecHarvest == InitHarvest /\ [][NextHarvest]_vars /\ WF_vars(NextHarvest)

\* What start_parsing hands to its caller: it ends after logging the
\* totals, without a return statement (None).
StartParsingResult == [given |-> FALSE, stats |-> NoStats]

\* start_parsing_catrgory on its own: a coroutine walks one category.
InitWalk ==
    /\ max_workers \in WorkerLimits
    /\ sleep_time = DefaultSleepTime
    /\ urls_path = NoUrlsPath
    /\ mpc = "category"
    /\ price_str = <<>>
    /\ Constructed

\* The coroutine calls pagination.start_parsing_catrgory(url).
CallWalk(j) ==
    /\ mpc = "category"
    /\ ctask[j].pc = "none"
    /\ ctask' = [ctask EXCEPT ![j] = ReadyJob]
    /\ UNCHANGED <<confVars, priceVars, fetchVars, mpc, err, harvestVars, upd, gen, l1task,
                   l1q, cat_urls, cq, ptask, pq, product_urls>>

NextWalk ==
    \/ \E j \in DirectCats : CallWalk(j) \/ CatStart(j) \/ CatMerge(j)
    \/ \E q \in Pages : PageStart(q)
    \/ FetchNext

SpecWalk == InitWalk /\ [][NextWalk]_vars

\* _safe_extract_price on its own: the price texts of the product pages
\* (a number with or without sign, thousands groups and fraction, then the
\* currency) and the exchange rates the generator may hold.
GroupCounts == {0, 1}          \* thousands groups of a price text
PriceSigns == {<<>>, <<"-">>}
PriceHeads == {<<"1">>, <<"1", "5">>}
GroupSeps == {<<>>, <<" ">>, <<",">>}
PriceFractions == {<<>>, <<".", "5">>, <<".", "5", "6">>}
PriceUnits == {<<>>, <<" ", "er">>, <<" ", "ER">>, <<" ", "U", "S", "D">>}
PriceRates == {NoRate, SomeRate, HalfRate}

RECURSIVE GroupsText(_, _)
GroupsText(sep, k) ==
    IF k = 0 THEN <<>> ELSE sep \o <<"2", "3", "4">> \o GroupsText(sep, k - 1)

PriceTexts ==
    {sg \o hd \o GroupsText(sep, k) \o fr \o un :
        sg \in PriceSigns, hd \in PriceHeads, sep \in GroupSeps,
        k \in GroupCounts, fr \in PriceFractions, un \in PriceUnits}

InitPrice ==
    /\ max_workers \in WorkerLimits
    /\ sleep_time = DefaultSleepTime
    /\ urls_path = NoUrlsPath
    /\ mpc = "price"
    /\ price_str \in PriceTexts
    /\ Constructed

NextPrice == (\E r \in PriceRates \ {NoRate} : StoreRate(r)) \/ ExtractPrice

SpecPrice == InitPrice /\ [][NextPrice]_vars

----------------------------------------------------------------------------
(* Properties of one _fetch call (checked under SpecFetch) *)

\* The failures the except clauses answer with `continue`.
Transient == {"5xx", "other", "timeout", "error"}

\* C1: a single call of _fetch issues at most 3 network requests, whatever
\* the sequence of responses.
C1_AtMostThreeRequests ==
    \A c \in DirectCalls : fetch[c].nreq <= 3

\* A call that needed all three requests and got its document on the last.
C1_Witness ==
    \E c \in DirectCalls :
        /\ fetch[c].pc = "done"
        /\ fetch[c].nreq = 3
        /\ fetch[c].outcome = "Document"

\* C2: a 403 ends the call at once as Blocked: no sleep follows the
\* response and no request beyond the attempt that received it is sent; a
\* 403 on attempt 1 leaves exactly one request.
C2_ForbiddenEndsCall ==
    \A c \in DirectCalls :
        fetch[c].resp = "403" =>
            /\ fetch[c].pc = "done"
            /\ fetch[c].outcome = "Blocked"
            /\ fetch[c].waits = <<>>
            /\ fetch[c].sleep = 0
            /\ fetch[c].nreq = fetch[c].attempt

\* Blocked on the first attempt, and blocked with budget left on the second.
C2_Witness ==
    /\ \E c \in DirectCalls :
           fetch[c].resp = "403" /\ fetch[c].attempt = 1 /\ fetch[c].nreq = 1
    /\ \E c \in DirectCalls :
           fetch[c].resp = "403" /\ fetch[c].attempt = 2

\* C3: a 404 ends the call at once as NotFound: no sleep follows the
\* response and no further request is sent; a 404 on attempt 1 leaves
\* exactly one request.
C3_NotFoundEndsCall ==
    \A c \in DirectCalls :
        fetch[c].resp = "404" =>
            /\ fetch[c].pc = "done"
            /\ fetch[c].outcome = "NotFound"
            /\ fetch[c].waits = <<>>
            /\ fetch[c].sleep = 0
            /\ fetch[c].nreq = fetch[c].attempt

C3_Witness ==
    /\ \E c \in DirectCalls :
           fetch[c].resp = "404" /\ fetch[c].attempt = 1 /\ fetch[c].nreq = 1
    /\ \E c \in DirectCalls :
           fetch[c].resp = "404" /\ fetch[c].attempt = 3

\* What the frame of a call looks like while its last answer is a failure
\* of the set kinds: after attempt 1 or 2 the call is on its way to the
\* next attempt or has sent it, after attempt 3 it has returned Exhausted.
RetriedOrExhausted(c, kinds) ==
    fetch[c].resp \in kinds =>
        \/ /\ fetch[c].pc = "backoff"
           /\ fetch[c].attempt \in 2..3
           /\ fetch[c].nreq = fetch[c].attempt - 1
        \/ /\ fetch[c].pc = "get"
           /\ fetch[c].attempt \in 2..3
           /\ fetch[c].nreq = fetch[c].attempt
        \/ /\ fetch[c].pc = "done"
           /\ fetch[c].outcome = "Exhausted"
           /\ fetch[c].attempt = 3
           /\ fetch[c].nreq = 3

\* C4 as amended: a 5xx, any other status of 400 or above except 403, 404
\* and 429, a timeout or a transport error on attempt 1 or 2 is followed by
\* the next attempt, and on attempt 3 by the Exhausted outcome; a response
\* that raise_for_status passes (2xx, and a final status below 400) ends
\* the call with the parsed document on any attempt.
C4_TransientRetried ==
    \A c \in DirectCalls :
        /\ RetriedOrExhausted(c, Transient)
        /\ Passes(fetch[c].resp) =>
               fetch[c].pc = "done" /\ fetch[c].outcome = "Document"
        /\ fetch[c].outcome = "Exhausted" => fetch[c].nreq = 3

\* One call exhausted by a timeout on its third attempt, another that got
\* its document on the second attempt after a transport error.
C4_Witness ==
    /\ \E c \in DirectCalls :
           /\ fetch[c].pc = "done"
           /\ fetch[c].outcome = "Exhausted"
           /\ fetch[c].resp = "timeout"
    /\ \E c \in DirectCalls :
           /\ fetch[c].pc = "get"
           /\ fetch[c].attempt = 2
           /\ fetch[c].resp = "error"

\* C4 as stated: every status that is not 2xx, 403, 404 or 429 is a
\* transient failure, and only a 2xx response returns the document.
C4_AnyNon2xxTransient ==
    \A c \in DirectCalls :
        /\ RetriedOrExhausted(c, Responses \ {"2xx", "403", "404", "429"})
        /\ fetch[c].outcome = "Document" => fetch[c].resp = "2xx"

\* C5: a 429 is followed by the 60-unit cooldown before any next attempt of
\* the call, and the attempt that received it counts: after a 429 on
\* attempt 1 or 2 the next attempt is the next of the three, and a 429 on
\* attempt 3 ends the call as Exhausted with exactly 3 requests.
C5_CooldownCounts ==
    \A c \in DirectCalls :
        /\ fetch[c].pc = "cooldown" =>
               /\ fetch[c].resp = "429"
               /\ fetch[c].sleep = 60 * TimeScale
               /\ fetch[c].nreq = fetch[c].attempt
        /\ fetch[c].resp = "429" =>
               /\ fetch[c].waits # <<>>
               /\ Head(fetch[c].waits) = "cooldown"
               /\ \/ fetch[c].pc = "cooldown"
                  \/ RetriedOrExhausted(c, {"429"})

\* Three requests, the last answered 429: the call is over, Exhausted.
C5_Witness ==
    \E c \in DirectCalls :
        /\ fetch[c].pc = "done"
        /\ fetch[c].resp = "429"
        /\ fetch[c].nreq = 3
        /\ fetch[c].outcome = "Exhausted"

\* C6: the only wait between a 429 response and the next network attempt
\* of the same call is the 60-unit cooldown.
C6_CooldownInsteadOfBackoff ==
    \A c \in DirectCalls :
        (fetch[c].resp = "429" /\ fetch[c].pc = "get") =>
            fetch[c].waits = <<"cooldown">>

----------------------------------------------------------------------------
(* Properties of a whole run (checked under Spec) *)

\* The callers of _fetch in a run of start_parsing.
RunCalls == Calls \ DirectCalls

\* A call that has acquired its slot and not yet returned.
Holding(c) == fetch[c].pc \in {"pace", "backoff", "get", "cooldown"}
InFlight(p) == {c \in RunCalls : ParserOf(c) = p /\ Holding(c)}
AllInFlight == {c \in RunCalls : Holding(c)}

InPipeline == {t \in Slots : task[t].pc = "fetch"}
\* The product requests on the wire.
OnWire == {c \in ProdCalls : fetch[c].pc = "get"}

\* C8: while a batch is harvested, at most W requests are on the wire and
\* the tasks inside the fetch+extract stage are at most the capacity of
\* the pipeline semaphore (created with max_workers), whatever the size of
\* the batch.
C8_HarvestCeilings ==
    mpc \in {"consume", "write"} =>
        /\ Cardinality(OnWire) <= max_workers
        /\ Cardinality(InPipeline) <= max_workers
        /\ Cardinality(InPipeline) = max_workers - pipe.value

\* A batch of more tasks than W: one request on the wire, one task queuing.
C8_Witness ==
    /\ mpc = "consume"
    /\ Cardinality(OnWire) = max_workers
    /\ \E t \in Slots : task[t].pc = "pipewait"

\* C9: when _process_batch has returned, every URL of the batches so far
\* has been counted as successful or as failed.
C9_EveryUrlCounted ==
    mpc = "pause" =>
        stats.successful + stats.failed = Min(batch_start + BatchSize, Len(urls))

\* The data rows of the sink (all rows but the header, which is row 0).
DataRows == IF sink = <<>> THEN 0 ELSE Len(sink) - 1

\* C10: the sink starts with the one header row, and at every point of the
\* consumer loop the data rows written so far are as many as the products
\* counted successful so far (in the batches before and in this one).
C10_RowsFollowSuccess ==
    /\ sink # <<>> =>
           /\ sink[1] = 0
           /\ \A i \in 2..Len(sink) : sink[i] # 0
    /\ DataRows = stats.successful + bstats.successful
    /\ mpc \in {"consume", "write", "pause", "done"} => sink # <<>>

\* In the middle of a batch: one row is written, another task is pending.
C10_Witness ==
    /\ mpc = "consume"
    /\ Len(sink) = 2
    /\ bstats.successful = 1
    /\ \E t \in Slots : task[t].pc \in {"ready", "pipewait", "fetch"}

----------------------------------------------------------------------------
(* Properties of the discovery and of the pagination *)

\* The listing pages k >= 2 of category j, and those among them whose fetch
\* returned a document or returned None.
PagesOf(j) == {q \in Pages : q[1] = j}
PagesGot(j, soup) == {q \in PagesOf(j) : hist[PageCall(q)].soup = soup}
UrlsOf(qs) == UNION {PageUrls(q[1], q[2]) : q \in qs}

\* C11: a category task that ends after the fetch of one of its pages
\* k >= 2 has failed ends without an exception, and returns the URLs of
\* page 1 and of every page that was fetched.
C11_FailedPageSkipped ==
    \A j \in Walks :
        (ctask[j].pc = "finished" /\ PagesGot(j, "None") # {}) =>
            /\ ctask[j].exc = "none"
            /\ ctask[j].res = PageUrls(j, 1) \cup UrlsOf(PagesGot(j, "Document"))

\* C12: start_parsing never ends with an exception that the failed fetch
\* of a single page has caused: what it raises is the missing distribution
\* page, a pager without numbers, the length of the frontier or the output
\* file.
C12_FailureStaysInTask ==
    mpc = "raised" => err \in {"ValueError", "TypeError", "IOError"}

\* C13: when extract_all_urls has returned the frontier, start_parsing goes
\* on to the harvest with it instead of raising.
C13_DiscoveredFrontierHarvested ==
    ~urls_path.given => err # "TypeError"

\* The listing pages (page 1 and pages k >= 2) whose fetch gave a document.
CatsGot(soup) == {j \in Walks : hist[<<"cat", j, 0>>].soup = soup}
PagesFetched == {q \in Pages : hist[PageCall(q)].soup = "Document"}

\* C14: the frontier extract_all_urls returns is the union of the product
\* URLs of all listing pages that were fetched, each URL once, whatever the
\* order in which the tasks completed.
C14_FrontierIsUnion ==
    err = "TypeError" =>
        product_urls = UNION {PageUrls(j, 1) : j \in CatsGot("Document")}
                           \cup UrlsOf(PagesFetched)

\* Both categories walked, pages 1 and a page 2 fetched: URL 1 and URL 2
\* are each listed on several of these pages.
C14_Witness ==
    /\ err = "TypeError"
    /\ CatsGot("Document") = Cats
    /\ PagesFetched # {}
    /\ product_urls = 1..2

\* The pages k >= 2 a walker has to request for the pager of page 1.
PagesDue(pager) ==
    IF pager.present /\ pager.nums # {}
    THEN {k \in 2..3 : \E m \in pager.nums : k <= m}
    ELSE {}

\* C15: a walker never requests a page twice; when it returns, it has
\* requested page 1 once and exactly the pages 2..max_page, max_page being
\* the largest numeric label of the pager, and none without a pager.
C15_PagesRequestedOnce ==
    \A j \in Walks :
        /\ hist[<<"cat", j, 0>>].calls <= 1
        /\ \A q \in PagesOf(j) : hist[PageCall(q)].calls <= 1
        /\ (ctask[j].pc = "finished" /\ ctask[j].exc = "none") =>
               /\ hist[<<"cat", j, 0>>].calls = 1
               /\ {q[2] : q \in {r \in PagesOf(j) : hist[PageCall(r)].calls = 1}}
                      = PagesDue(ctask[j].pager)

\* Labels 1 and 3: pages 2 and 3 have both been requested.
C15_Witness ==
    \E j \in DirectCats :
        /\ ctask[j].pc = "finished"
        /\ ctask[j].exc = "none"
        /\ ctask[j].pager.nums = {1, 3}
        /\ \A k \in 2..3 : hist[<<"page", j, k>>].calls = 1

\* C18: when the fetch of the distribution page has failed, start_parsing
\* has raised the error, no level-1 page and no listing page was ever
\* requested, and there is no partial result.
C18_RootFailureFatal ==
    hist[RootCall].soup = "None" =>
        /\ mpc = "raised"
        /\ err = "ValueError"
        /\ \A c \in CrawlCalls \ {RootCall} : hist[c].calls = 0
        /\ \A i \in L1s : l1task[i].pc = "none"
        /\ \A j \in Walks : ctask[j].pc = "none"
        /\ cat_urls = {}
        /\ product_urls = {}
        /\ sink = <<>>

C18_Witness ==
    /\ hist[RootCall].soup = "None"
    /\ hist[RootCall].calls = 1
    /\ mpc = "raised"

\* C19: a level-1 task never raises; without a document or without links
\* it returns the empty set; the set start_extract_urls builds is the union
\* of what the tasks returned, and it is the one the walk starts with.
C19_Level1FailureTolerated ==
    /\ \A i \in L1s :
           l1task[i].pc \in {"finished", "consumed"} =>
               /\ l1task[i].exc = "none"
               /\ l1task[i].res \in LinksOf(i)
               /\ hist[<<"l1", i, 0>>].soup = "None" => l1task[i].res = {}
    /\ cat_urls = UNION {l1task[i].res : i \in {k \in L1s : l1task[k].pc = "consumed"}}
    /\ mpc = "lvl2" => err = "none"
    /\ mpc = "walk" =>
           /\ \A i \in L1s : l1task[i].pc \in {"none", "consumed"}
           /\ {j \in Walks : ctask[j].pc # "none"} = cat_urls

\* One level-1 page failed, another gave links: the walk has started with
\* the links of the other.
C19_Witness ==
    /\ mpc = "walk"
    /\ \E i \in L1s : hist[<<"l1", i, 0>>].soup = "None"
    /\ cat_urls # {}

\* C20: when the fetch of page 1 of a category has failed, the walker has
\* returned the empty set without an exception, page 1 was requested once
\* and no page k >= 2 of the category was or will be requested.
C20_Page1FailureSkipsCategory ==
    \A j \in Walks :
        hist[<<"cat", j, 0>>].soup = "None" =>
            /\ hist[<<"cat", j, 0>>].calls = 1
            /\ ctask[j].pc \in {"finished", "consumed"}
            /\ ctask[j].exc = "none"
            /\ ctask[j].res = {}
            /\ \A q \in PagesOf(j) :
                   hist[PageCall(q)].calls = 0 /\ ptask[q].pc = "none"

\* Page 1 of one category failed while the walk of another goes on.
C20_Witness ==
    \E j, k \in Cats :
        /\ hist[<<"cat", j, 0>>].soup = "None"
        /\ ctask[j].pc = "finished"
        /\ ctask[k].pc = "pages"

----------------------------------------------------------------------------
(* Properties of the harvest as a whole *)

\* C16: once the batch loop runs, start_parsing reaches its end whatever
\* the product pages answer and whatever extraction and enrichment raise:
\* every batch has been processed, the tally is final and the rows of all
\* successful products are in the output.
C16_HarvestCompletes ==
    (mpc = "consume") ~>
        (/\ mpc = "done"
         /\ err = "none"
         /\ batch_start >= Len(urls)
         /\ DataRows = stats.successful)

\* The end of a run of two batches with successes and a failure.
C16_Witness ==
    /\ mpc = "done"
    /\ Len(urls) > BatchSize
    /\ stats.successful >= 1
    /\ stats.failed >= 1
    /\ DataRows = stats.successful

\* C17 as stated: at its end start_parsing returns the accumulated counters.
C17_ReturnsBatchStats ==
    mpc = "done" => StartParsingResult.given /\ StartParsingResult.stats = stats

\* What the last iteration of a batch may add to the batch's counters.
LastCounts == {<<0, 0>>, <<1, 0>>, <<0, 1>>}

\* C17 as amended: the counters of start_parsing grow by the counters of
\* each batch when the batch returns and change at no other step, so that
\* at the end they are the sums over all batches; they are logged, and
\* nothing is returned.
C17_TallyAccumulated ==
    /\ [](mpc = "done" => ~StartParsingResult.given)
    /\ [][IF mpc # "pause" /\ mpc' = "pause"
          THEN \E n \in LastCounts :
                   /\ stats'.successful = stats.successful + bstats.successful + n[1]
                   /\ stats'.failed = stats.failed + bstats.failed + n[2]
          ELSE stats' = stats]_vars

\* The end of a run whose counters come from two batches.
C17_Witness ==
    /\ mpc = "done"
    /\ Len(urls) > BatchSize
    /\ stats.successful >= 2
    /\ stats.failed >= 1

----------------------------------------------------------------------------
(* Properties of the batches and of the output *)

\* The tasks of the batch that exist and have not been consumed.
LiveTasks == {t \in Slots : task[t].pc \notin {"none", "consumed"}}

\* C21: the tasks that exist are those of the current batch, one per URL of
\* urls[batch_start : batch_start + batch_size] and so at most batch_size;
\* a product fetch runs only inside such a task; and when _process_batch
\* has returned (before the next batch is created and at the end) no task
\* of the batch is left: all have finished and were consumed.
C21_OneBatchAtATime ==
    /\ \A t \in Slots :
           task[t].pc # "none" =>
               /\ mpc \in {"consume", "write"}
               /\ t <= Len(BatchUrls(urls, batch_start))
               /\ task[t].url = urls[batch_start + t]
    /\ \A t \in Slots : fetch[CallOf(t)].pc # "idle" => task[t].pc = "fetch"
    /\ Cardinality(LiveTasks) <= BatchSize
    /\ mpc \in {"pause", "done"} =>
           /\ \A t \in Slots : task[t].pc = "none"
           /\ doneq = <<>>
           /\ pipe.waiters = <<>>

\* The second batch is being harvested: its task fetches its product.
C21_Witness ==
    /\ mpc = "consume"
    /\ batch_start >= BatchSize
    /\ task[1].pc = "fetch"
    /\ task[1].url = urls[batch_start + 1]

\* C22: a row write is in progress exactly while the consumer loop of
\* _process_batch waits in writerow for the one task it has just taken from
\* as_completed; and every step that adds to the output is a step of
\* start_parsing (the header) or of that loop (one row, of that task),
\* never a step of a fetch or of a per-URL task.
C22_WritesSerialized ==
    /\ [](/\ mpc = "write" <=> cur # 0
          /\ cur # 0 => cur \in Slots /\ task[cur].pc = "consumed"
                                     /\ task[cur].res = "data")
    /\ [][sink' # sink =>
              /\ mpc \in {"header", "write"}
              /\ fetch' = fetch
              /\ \A t \in Slots : task'[t].pc \in {task[t].pc, "none", "ready"}
              /\ mpc = "header" => sink' = Append(sink, 0)
              /\ mpc = "write" => sink' = Append(sink, task[cur].url) /\ cur' = 0]_vars

\* A row is being written while another finished product waits its turn
\* and while a request of the batch is on the wire.
C22_Witness ==
    /\ mpc = "write"
    /\ \/ doneq # <<>> /\ task[Head(doneq)].res = "data"
       \/ OnWire # {}
    /\ \E t \in Slots : t # cur /\ task[t].pc \in {"fetch", "finished"}

----------------------------------------------------------------------------
(* Properties of the refresh of the brands and of the exchange rate *)

\* The generator as DigisAPI.__init__ leaves it.
FreshGen == [brands |-> FALSE, rate |-> NoRate]

\* C23: the two lookups start once, with start_parsing; until both have
\* ended no page of the crawl and no product has been requested and
\* nothing has been raised; a lookup that has failed has left its value
\* (the brand set, the exchange rate) as it was; and whatever the two
\* results, start_parsing raises nothing before update() has returned and
\* goes on to the crawl or to the harvest.
C23_LookupsBestEffort ==
    /\ [](/\ mpc = "init" => upd = [brands |-> "idle", rate |-> "idle"] /\ gen = FreshGen
          /\ mpc = "update" =>
                 /\ upd.brands \in {"fetch"} \cup LookupEnds
                 /\ upd.rate \in {"get"} \cup LookupEnds
                 /\ upd.brands = "fetch" <=> fetch[BrandsCall].pc # "idle"
                 /\ upd.brands # "ok" <=> gen.brands = FreshGen.brands
                 /\ upd.rate # "ok" <=> gen.rate = FreshGen.rate
          /\ mpc \in {"init", "update"} =>
                 /\ err = "none"
                 /\ \A c \in RunCalls \ {BrandsCall} : fetch[c].pc = "idle"
                 /\ \A c \in CrawlCalls : hist[c].calls = 0
                 /\ \A t \in Slots : task[t].pc = "none"
          /\ mpc \notin {"init", "update"} =>
                 /\ upd = [brands |-> "idle", rate |-> "idle"]
                 /\ fetch[BrandsCall].pc = "idle")
    /\ [][/\ mpc' = "init" => mpc = "init"
          /\ (mpc = "update" /\ mpc' # "update") =>
                 /\ upd.brands \in LookupEnds /\ upd.rate \in LookupEnds
                 /\ mpc' = IF urls_path.given THEN "open" ELSE "root"
                 /\ err' = "none"
          /\ mpc # "update" => gen' = gen]_vars

\* Both lookups have failed and a product is being requested.
C23_Witness ==
    /\ gen = FreshGen
    /\ mpc = "consume"
    /\ OnWire # {}

----------------------------------------------------------------------------
(* Properties of the price *)

\* The integer a price text shows: the digits of the number it starts
\* with, up to the decimal point or the currency, with its sign.
IntegerValue(str) ==
    LET ends == {i \in 1..Len(str) : str[i] \notin {"-", " ", ","} /\ ~IsDigit(str[i])}
        last == IF ends = {} THEN Len(str)
                ELSE (CHOOSE i \in ends : \A k \in ends : i <= k) - 1
        number == SubSeq(str, 1, last)
        digits == SelectSeq(number, IsDigit)
    IN IF "-" \in Chars(number) THEN 0 - DigitsValue(digits) ELSE DigitsValue(digits)

HasRoubleMarker(str) == "er" \in Chars(str) \/ "ER" \in Chars(str)

\* C24: a price text with the rouble marker gives its integer value
\* whatever the rate; one without it gives its integer value when no rate
\* is set, and the value times the rate rounded half-up when one is set;
\* "1 234 er" without a rate gives 1234 and "15 USD" at 90.00 gives 1350.
C24_PriceNormalized ==
    price.given =>
        /\ price.value =
               IF HasRoubleMarker(price_str) \/ gen.rate = NoRate
               THEN IntegerValue(price_str)
               ELSE RoundHalfUp(IntegerValue(price_str) * gen.rate, RateScale)
        /\ (price_str = <<"1", " ", "2", "3", "4", " ", "er">> /\ gen.rate = NoRate)
               => price.value = 1234
        /\ (price_str = <<"1", "5", " ", "U", "S", "D">> /\ gen.rate = SomeRate)
               => price.value = 1350

----------------------------------------------------------------------------
(* Properties of the sleeps of _fetch (checked under SpecFetch) *)

\* C25 as stated: every attempt of a call is preceded by a pacing sleep of
\* its own, that is, a pacing sleep lies between the previous response (or
\* the start of the call) and each request.
C25_PacedBeforeEveryAttempt ==
    \A c \in DirectCalls :
        fetch[c].pc = "get" =>
            \E i \in 1..Len(fetch[c].waits) : fetch[c].waits[i] = "pace"

\* C25 as amended: a call sleeps its pacing delay once, when it has its
\* slot and before its first request, for at least 2 time-units; attempt 1
\* follows that sleep, and attempts 2 and 3 follow their backoff sleep (and
\* the cooldown of a 429) without any further pacing sleep.
C25_PacedOncePerCall ==
    \A c \in DirectCalls :
        /\ fetch[c].pc = "pace" =>
               /\ fetch[c].sleep >= 2 * TimeScale
               /\ fetch[c].attempt = 0
               /\ fetch[c].nreq = 0
               /\ fetch[c].waits = <<"pace">>
        /\ (fetch[c].pc = "get" /\ fetch[c].attempt = 1) =>
               fetch[c].waits = <<"pace">>
        /\ (fetch[c].pc = "get" /\ fetch[c].attempt > 1) =>
               fetch[c].waits \in {<<"backoff">>, <<"cooldown", "backoff">>}

\* The third request of a call is out: only the backoff came before it.
C25_Witness ==
    \E c \in DirectCalls :
        /\ fetch[c].pc = "get"
        /\ fetch[c].attempt = 3
        /\ fetch[c].nreq = 3
        /\ fetch[c].waits = <<"backoff">>

\* C26: no backoff precedes attempt 1; attempt 2 is preceded by a backoff
\* of 2 * sleep_time + j and attempt 3 by one of 4 * sleep_time + j, j in
\* [1, 5], after a 429 as after any other failure; with sleep_time = 3 the
\* first lies in [7, 11] and the second in [13, 17], above the first.
C26_BackoffGrows ==
    \A c \in DirectCalls :
        LET f == fetch[c]
            units == IF f.attempt = 2 THEN 2 * sleep_time ELSE 4 * sleep_time
        IN /\ f.attempt <= 1 => \A i \in 1..Len(f.waits) : f.waits[i] # "backoff"
           /\ f.pc = "backoff" =>
                  /\ f.attempt \in 2..3
                  /\ f.resp \in Transient \cup {"429"}
                  /\ f.sleep >= (units + 1) * TimeScale
                  /\ f.sleep <= (units + 5) * TimeScale
                  /\ (sleep_time = 3 /\ f.attempt = 2) =>
                         f.sleep \in (7 * TimeScale)..(11 * TimeScale)
                  /\ (sleep_time = 3 /\ f.attempt = 3) =>
                         f.sleep \in (13 * TimeScale)..(17 * TimeScale)
           /\ (f.pc = "get" /\ f.attempt > 1) =>
                  /\ f.waits # <<>>
                  /\ f.waits[Len(f.waits)] = "backoff"

\* The longest backoff: before attempt 3, after a 429 and its cooldown.
C26_Witness ==
    \E c \in DirectCalls :
        /\ sleep_time = 3
        /\ fetch[c].pc = "backoff"
        /\ fetch[c].attempt = 3
        /\ fetch[c].resp = "429"
        /\ fetch[c].sleep = 17 * TimeScale

----------------------------------------------------------------------------
(* Properties of extract_all_urls *)

CatCall(j) == <<"cat", j, 0>>

\* C27: the distribution page is requested once; while the discovery runs
\* no category task exists and no listing page has been requested; the
\* category tasks are those of the discovered URLs, each walking its
\* category at most once; and when extract_all_urls has returned its set,
\* every discovered URL has been walked exactly once and every walk has
\* completed and was merged.
C27_DiscoveryThenWalks ==
    /\ hist[RootCall].calls <= 1
    /\ mpc \in {"init", "update", "root", "lvl2"} =>
           /\ \A j \in Walks : ctask[j].pc = "none"
           /\ \A c \in CatCalls \cup PageCalls : hist[c].calls = 0
           /\ product_urls = {}
    /\ (\E j \in Walks : ctask[j].pc # "none") =>
           /\ hist[RootCall] = [calls |-> 1, soup |-> "Document"]
           /\ \A i \in L1s : l1task[i].pc \in {"none", "consumed"}
           /\ {j \in Walks : ctask[j].pc # "none"} = cat_urls
    /\ \A j \in Walks :
           /\ hist[CatCall(j)].calls <= 1
           /\ hist[CatCall(j)].calls = 1 <=> ctask[j].pc \notin {"none", "ready"}
    /\ err = "TypeError" =>
           /\ \A j \in cat_urls :
                  ctask[j].pc = "consumed" /\ hist[CatCall(j)].calls = 1
           /\ \A j \in Walks \ cat_urls :
                  ctask[j].pc = "none" /\ hist[CatCall(j)].calls = 0
           /\ \A c \in CatCalls \cup PageCalls : fetch[c].pc = "idle"
           /\ cq = <<>>

\* The set is returned after the walks of both discovered categories, one
\* of them over several pages.
C27_Witness ==
    /\ err = "TypeError"
    /\ cat_urls = Cats
    /\ \A j \in Cats : hist[CatCall(j)].calls = 1
    /\ \E q \in Pages : hist[PageCall(q)].calls = 1

----------------------------------------------------------------------------
(* Termination of _fetch (checked under SpecFetchFair) *)

Outcomes == {"Document", "Blocked", "NotFound", "Exhausted"}

\* C28: a call that waits for a slot of the semaphore gets one, and every
\* call that has started returns, with a document or with a failure.
C28_FetchReturns ==
    \A c \in TwoCalls :
        /\ (fetch[c].pc = "acquire") ~> (fetch[c].pc = "pace")
        /\ (fetch[c].pc # "idle") ~>
               (fetch[c].pc = "done" /\ fetch[c].outcome \in Outcomes)

\* A call that had to wait for its slot has returned after three timeouts.
C28_Witness ==
    \E c, d \in TwoCalls :
        /\ max_workers = 1
        /\ c # d
        /\ fetch[c].pc = "done"
        /\ fetch[d].pc = "done"
        /\ fetch[d].outcome = "Exhausted"
        /\ fetch[d].resp = "timeout"

----------------------------------------------------------------------------
(* Properties of the URL sets *)

\* C29: the set of start_extract_urls, the set of extract_all_urls and the
\* set of a walker change only in a step of their owner that takes the
\* next finished task from as_completed, by the union with that one
\* task's result; no step of a fetch or of a producer task changes them.
C29_AccumulatorsOwned ==
    [][/\ cat_urls' # cat_urls =>
              /\ mpc = "lvl2"
              /\ fetch' = fetch
              /\ l1q # <<>>
              /\ l1task[Head(l1q)].pc = "finished"
              /\ l1q' = Tail(l1q)
              /\ cat_urls' = cat_urls \cup l1task[Head(l1q)].res
       /\ product_urls' # product_urls =>
              /\ mpc = "walk"
              /\ fetch' = fetch
              /\ cq # <<>>
              /\ ctask[Head(cq)].pc = "finished"
              /\ cq' = Tail(cq)
              /\ product_urls' = product_urls \cup ctask[Head(cq)].res
       /\ \A j \in Walks :
              (ctask[j].pc = "pages" /\ ctask'[j].res # ctask[j].res) =>
                  /\ fetch' = fetch
                  /\ pq[j] # <<>>
                  /\ ptask[Head(pq[j])].pc = "finished"
                  /\ pq'[j] = Tail(pq[j])
                  /\ \/ ctask'[j].res = ctask[j].res
                                          \cup PageUrls(j, Head(pq[j])[2])
                     \/ ctask'[j].exc # "none"]_vars

\* All three sets are being built: both level-1 results are merged, one
\* category is merged, and a page of another waits to be merged.
C29_Witness ==
    /\ mpc = "walk"
    /\ cat_urls = Cats
    /\ product_urls # {}
    /\ \E j \in Cats :
           ctask[j].pc = "pages" /\ ctask[j].res # {} /\ pq[j] # <<>>

----------------------------------------------------------------------------
(* Properties of the slots of a parser's semaphore (checked under SpecFetch) *)

\* The calls of the parser that are between their acquisition and their
\* return: in the pacing sleep, in a backoff sleep, in a request or in the
\* cooldown.
SlotHolders == {c \in DirectCalls : fetch[c].pc \in {"pace", "backoff", "get", "cooldown"}}

\* C30: the slots taken from a parser's semaphore are exactly those of the
\* calls between acquisition and return, whatever they are sleeping or
\* waiting for; a call that has returned, with whatever outcome, holds
\* none; and when no call is under way all W slots are free and nobody
\* waits.
C30_SlotsHeldAndReturned ==
    LET s == sem[ParserOf(<<"call", 1, 0>>)] IN
    /\ s.value \in 0..max_workers
    /\ max_workers - s.value = Cardinality(SlotHolders)
    /\ \A c \in DirectCalls :
           /\ fetch[c].pc = "acquire" <=> \E i \in 1..Len(s.waiters) : s.waiters[i] = c
           /\ fetch[c].pc = "done" => fetch[c].outcome \in Outcomes
    /\ (\A c \in DirectCalls : fetch[c].pc \in {"idle", "done"}) =>
           s = [value |-> max_workers, waiters |-> <<>>]

\* All calls have returned, one through the cooldown and the exhausted
\* exit and one through the 403 exit, and the slots are back.
C30_Witness ==
    /\ \A c \in DirectCalls : fetch[c].pc = "done"
    /\ \E c \in DirectCalls : fetch[c].outcome = "Exhausted" /\ fetch[c].resp = "429"
    /\ \E c \in DirectCalls : fetch[c].outcome = "Blocked"
    /\ sem[ParserOf(<<"call", 1, 0>>)].value = max_workers

----------------------------------------------------------------------------
(* What a failed fetch tells its caller (checked under Spec) *)

\* The step with which the _fetch of run caller c returns.
Returns(c) == fetch[c].pc \in {"get", "cooldown"} /\ fetch'[c].pc = "idle"

\* The state after the _fetch of run caller c has returned without a
\* document, written without the frame of the call: neither the answer of
\* the network nor the number of the attempt occurs in it.
AfterNone(c) ==
    /\ fetch' = [fetch EXCEPT ![c] = IdleCall]
    /\ sem' = [sem EXCEPT ![ParserOf(c)] = Release(@)]
    /\ hist' = Answered(hist, c, "None")
    /\ UNCHANGED <<confVars, priceVars, urls, batch_start, stats, bstats, cur, sink,
                   gen, cat_urls, product_urls>>
    /\ CASE c[1] = "brands" ->
                /\ upd' = [upd EXCEPT !.brands = "failed"]
                /\ UNCHANGED <<mpc, err, pipe, task, doneq, l1task, l1q, ctask, cq,
                               ptask, pq>>
         [] c[1] = "root" ->
                /\ mpc' = "raised"
                /\ err' = "ValueError"
                /\ UNCHANGED <<upd, pipe, task, doneq, l1task, l1q, ctask, cq, ptask, pq>>
         [] c[1] = "l1" ->
                /\ l1task' = [l1task EXCEPT ![c[2]] = Finished(@, {}, "none")]
                /\ l1q' = Append(l1q, c[2])
                /\ UNCHANGED <<mpc, err, upd, pipe, task, doneq, ctask, cq, ptask, pq>>
         [] c[1] = "cat" ->
                /\ ctask' = [ctask EXCEPT ![c[2]] = Finished(@, {}, "none")]
                /\ cq' = Append(cq, c[2])
                /\ UNCHANGED <<mpc, err, upd, pipe, task, doneq, l1task, l1q, ptask, pq>>
         [] c[1] = "page" ->
                /\ ptask' = [ptask EXCEPT ![<<c[2], c[3]>>] =
                                 [pc |-> "finished", soup |-> "None"]]
                /\ pq' = [pq EXCEPT ![c[2]] = Append(@, <<c[2], c[3]>>)]
                /\ UNCHANGED <<mpc, err, upd, pipe, task, doneq, l1task, l1q, ctask, cq>>
         [] c[1] = "prod" ->
                /\ task' = [task EXCEPT ![c[2]].pc = "finished", ![c[2]].res = "None"]
                /\ pipe' = Release(pipe)
                /\ doneq' = Append(doneq, c[2])
                /\ UNCHANGED <<mpc, err, upd, l1task, l1q, ctask, cq, ptask, pq>>

\* The caller of c has received a document.
DocumentDelivered(c) ==
    CASE c[1] = "brands" -> upd'.brands = "ok"
      [] c[1] = "prod" -> task'[c[2]].res = "data"
      [] OTHER -> hist'[c].soup = "Document"

\* C31: a caller of _fetch receives a document or None and nothing else,
\* and every return of _fetch without a document, be it after a 403, after
\* a 404 or after the last attempt, leaves the run in the one state that
\* the state before determines without the frame of the call: the same
\* task result, the same URL sets, the same counters, the same rows.
C31_FailuresIndistinguishable ==
    /\ [](\A c \in CrawlCalls : hist[c].soup \in {"pending", "Document", "None"})
    /\ [][fetch' # fetch =>
              \A c \in RunCalls :
                  Returns(c) => DocumentDelivered(c) \/ AfterNone(c)]_vars

\* The discoverer and a walker have both been answered None: a level-1
\* page and page 1 of a category have failed, and the walk goes on.
C31_Witness ==
    /\ mpc = "walk"
    /\ \E i \in L1s : hist[<<"l1", i, 0>>].soup = "None" /\ l1task[i].res = {}
    /\ \E j \in Cats : /\ hist[<<"cat", j, 0>>].soup = "None"
                       /\ ctask[j].pc = "finished"
                       /\ ctask[j].res = {}

----------------------------------------------------------------------------
(* The frame of a 403 (checked under SpecFetchPair) *)

\* The step in which call c receives a 403 and returns.
Blocks(c) ==
    fetch[c].pc = "get" /\ fetch'[c].pc = "done" /\ fetch'[c].outcome = "Blocked"

\* The frames a call can have after its next step, as its own frame f, the
\* sleep_time of its parser and the answer to its own request give them.
OwnSteps(f) ==
    CASE f.pc = "idle" ->
             {[IdleCall EXCEPT !.pc = "acquire"]}
                 \cup {StartPacing(IdleCall, sleep_time, j) : j \in PaceJitter}
      [] f.pc = "acquire" -> {StartPacing(f, sleep_time, j) : j \in PaceJitter}
      [] f.pc = "pace" -> {SendRequest([f EXCEPT !.attempt = 1])}
      [] f.pc = "backoff" -> {SendRequest(f)}
      [] f.pc = "get" ->
             {OnResponse(f, r, sleep_time, j) : r \in Responses, j \in BackoffJitter}
      [] f.pc = "cooldown" ->
             {NextAttempt([f EXCEPT !.sleep = 0], sleep_time, j) : j \in BackoffJitter}
      [] OTHER -> {}

\* Some call has been answered 403.
SomeBlocked == \E c \in DirectCalls : fetch[c].outcome = "Blocked"

\* C32: the step in which a call receives a 403 changes the frame of that
\* call and gives its slot back, and nothing else: no frame of another
\* call, no waiter of the semaphore, not sleep_time nor max_workers, and the
\* program is not stopped.  Once a call has been blocked, every step of
\* every call is still the step its own frame prescribes (its own pacing
\* sleep, its own three attempts), and a call that starts waits for a slot
\* only when none is free.
C32_BlockedIsLocal ==
    /\ [](mpc = "direct" /\ err = "none")
    /\ [][/\ \A c \in DirectCalls :
                 Blocks(c) =>
                     /\ \A d \in Calls \ {c} : fetch'[d] = fetch[d]
                     /\ sem' = [sem EXCEPT ![ParserOf(c)] = Release(@)]
                     /\ UNCHANGED <<hist, callerVars>>
          /\ SomeBlocked =>
                 \A d \in DirectCalls :
                     fetch'[d] # fetch[d] =>
                         /\ fetch'[d] \in OwnSteps(fetch[d])
                         /\ fetch'[d].pc = "acquire" => Locked(sem[ParserOf(d)])]_vars

\* With one slot: a call has been blocked, and the call that got the slot
\* after it is sending its third request.
C32_Witness ==
    /\ max_workers = 1
    /\ \E c, d \in DirectCalls :
           /\ fetch[c].pc = "done"
           /\ fetch[c].outcome = "Blocked"
           /\ fetch[d].pc = "get"
           /\ fetch[d].attempt = 3

----------------------------------------------------------------------------
(* The counters of _process_batch (checked under Spec) *)

\* The tasks of the batch as_completed has yielded, and those among them
\* that delivered product data.
Consumed == {t \in Slots : task[t].pc = "consumed"}
ConsumedData == {t \in Consumed : task[t].res = "data"}

\* The products counted so far, in the batches before and in this one.
Counted(k) == IF k = "successful" THEN stats.successful + bstats.successful
                                  ELSE stats.failed + bstats.failed

\* The task the consumer loop is dealing with in this step: the one it
\* takes from as_completed, or the one whose row it is writing.
InHand ==
    IF mpc = "write" THEN cur
    ELSE IF mpc = "consume" /\ doneq # <<>> THEN Head(doneq) ELSE 0

\* C33: the counters of the batch count tasks that were yielded with
\* product data, each at most once: their sum is the number of these
\* tasks, less the one whose row is being written.  A step changes at
\* most one of the counters, by one, and only for the task the consumer
\* loop has in hand, which delivered data; failed grows only where
\* create_product or the row write raises; and the step that takes a task
\* without data changes no counter and writes no row.
C33_CountedAtMostOnce ==
    /\ [](/\ bstats.successful + bstats.failed
                 = Cardinality(ConsumedData) - (IF mpc = "write" THEN 1 ELSE 0)
          /\ bstats.successful + bstats.failed <= Cardinality(Consumed)
          /\ mpc \notin {"consume", "write"} => bstats = NoStats)
    /\ [][LET ds == Counted("successful")' - Counted("successful")
              df == Counted("failed")' - Counted("failed")
          IN /\ <<ds, df>> \in {<<0, 0>>, <<1, 0>>, <<0, 1>>}
             /\ <<ds, df>> # <<0, 0>> =>
                    /\ InHand \in Slots
                    /\ task[InHand].res = "data"
                    /\ task'[InHand].pc \in {"consumed", "none"}
             /\ ds = 1 => mpc = "write" /\ sink' = Append(sink, task[cur].url)
             /\ df = 1 => sink' = sink
             /\ (/\ mpc = "consume" /\ doneq # <<>> /\ doneq' = Tail(doneq)
                 /\ task[InHand].res = "None") =>
                    <<ds, df>> = <<0, 0>> /\ sink' = sink /\ mpc' # "write"]_vars

\* A batch of two URLs has returned: one task delivered no data, the
\* other's product was counted as failed.
C33_Witness ==
    /\ mpc = "pause"
    /\ batch_start = 0
    /\ Len(urls) >= 2
    /\ stats = [successful |-> 0, failed |-> 1]

----------------------------------------------------------------------------
(* The batches of an externally supplied list (checked under Spec) *)

\* The values of batch_start: range(0, len(urls), batch_size).
BatchStarts == {b \in 0..(Len(urls) - 1) : b % BatchSize = 0}

\* The steps of a _create_limited_task coroutine, from its creation to the
\* end of its batch (the last task of a batch is yielded in the step in
\* which _process_batch returns).
TaskSteps ==
    {<<"none", "ready">>, <<"ready", "pipewait">>, <<"ready", "fetch">>,
     <<"pipewait", "fetch">>, <<"fetch", "finished">>, <<"finished", "consumed">>,
     <<"finished", "none">>, <<"consumed", "none">>}

\* C34: the URL list of a file is taken as it is, with its repetitions.
\* Its batches are the slices at 0, batch_size, 2 * batch_size, ...: every
\* slice is in the order of the list, has at most batch_size URLs and
\* exactly batch_size when it is not the last, every position of the list
\* lies in exactly one slice, and there are ceil(n / batch_size) slices.
\* The loop visits these slices one after the other and ends behind the
\* last; the tasks of a batch are one per position of its slice, each with
\* the URL of its position, and each task calls _fetch once.  An empty
\* list ends with the header as the only row.
C34_BatchesPartitionList ==
    /\ [](urls_path.given =>
            /\ mpc \in {"open", "header", "consume", "write", "pause", "done"} =>
                   urls = urls_path.rows
            /\ \A b \in BatchStarts :
                   LET slice == BatchUrls(urls, b) IN
                   /\ Len(slice) \in 1..BatchSize
                   /\ b + BatchSize <= Len(urls) => Len(slice) = BatchSize
                   /\ \A k \in 1..Len(slice) : slice[k] = urls[b + k]
            /\ \A i \in 1..Len(urls) :
                   Cardinality({b \in BatchStarts :
                                   b < i /\ i <= b + Len(BatchUrls(urls, b))}) = 1
            /\ Cardinality(BatchStarts) = (Len(urls) + BatchSize - 1) \div BatchSize
            /\ mpc \in {"consume", "write", "pause"} => batch_start \in BatchStarts
            /\ mpc \in {"consume", "write"} =>
                   \A t \in Slots :
                       IF t <= Len(BatchUrls(urls, batch_start))
                       THEN task[t].pc # "none" /\ task[t].url = urls[batch_start + t]
                       ELSE task[t] = NoTask
            /\ mpc = "done" =>
                   /\ batch_start = Cardinality(BatchStarts) * BatchSize
                   /\ Len(urls) = 0 => sink = <<0>> /\ stats = NoStats)
    /\ [][urls_path.given =>
            /\ batch_start' # batch_start =>
                   mpc = "pause" /\ batch_start' = batch_start + BatchSize
            /\ (mpc' = "consume" /\ mpc \notin {"consume", "write"}) =>
                   /\ mpc \in {"header", "pause"}
                   /\ \A t \in Slots :
                          t <= Len(BatchUrls(urls', batch_start')) => task'[t].pc = "ready"
            /\ \A t \in Slots :
                   /\ task'[t].pc # task[t].pc => <<task[t].pc, task'[t].pc>> \in TaskSteps
                   /\ fetch'[CallOf(t)].pc # "idle" =>
                          task'[t].pc = "fetch" /\ task'[t].url = task[t].url
                   /\ (task[t].pc # "fetch" /\ task'[t].pc = "fetch") =>
                          fetch'[CallOf(t)].pc \in {"acquire", "pace"}]_vars

\* A URL of the first batch occurs again in a later batch, and the task of
\* that position is fetching it again.
C34_Witness ==
    /\ urls_path.given
    /\ mpc = "consume"
    /\ batch_start >= BatchSize
    /\ task[1].pc = "fetch"
    /\ fetch[CallOf(1)].pc = "get"
    /\ \E i \in 1..BatchSize : urls[i] = task[1].url

----------------------------------------------------------------------------
(* A pager without numbers (checked under SpecWalk) *)

\* C35: when page 1 of a category was fetched and its pager shows no
\* numeric label, start_parsing_catrgory has ended with the ValueError of
\* max([]): it has returned nothing, page 1's product URLs included, and
\* no page k >= 2 of the category was requested or will be.
C35_EmptyPagerRaises ==
    \A j \in Walks :
        (ctask[j].pager.present /\ ctask[j].pager.nums = {}) =>
            /\ hist[CatCall(j)] = [calls |-> 1, soup |-> "Document"]
            /\ ctask[j].pc = "finished"
            /\ ctask[j].exc = "ValueError"
            /\ ctask[j].res = {}
            /\ PageUrls(j, 1) # {}
            /\ \A q \in PagesOf(j) :
                   /\ hist[PageCall(q)].calls = 0
                   /\ ptask[q].pc = "none"
                   /\ fetch[PageCall(q)].pc = "idle"

\* The walk of a category has ended on such a pager.
C35_Witness ==
    \E j \in DirectCats :
        /\ ctask[j].pager = [present |-> TRUE, nums |-> {}]
        /\ ctask[j].pc = "finished"
        /\ ctask[j].exc = "ValueError"

----------------------------------------------------------------------------
(* A 429 on the last attempt (checked under SpecFetch) *)

\* The frame of a call whose third request has been answered, with a 429
\* (while a request is out, resp is still the answer to the one before).
LastAnswered429(f) == f.resp = "429" /\ f.nreq = MaxAttempts /\ f.pc # "get"

\* C36: a call whose third request was answered 429 is in the 60-unit
\* sleep, holding its slot and without an outcome, or it has slept it and
\* has returned Exhausted, with no other sleep and no request after the
\* answer; the slots taken from the semaphore count the sleeping call.
C36_LastCooldownServed ==
    \A c \in DirectCalls :
        LastAnswered429(fetch[c]) =>
            /\ fetch[c].attempt = MaxAttempts
            /\ fetch[c].waits = <<"cooldown">>
            /\ \/ /\ fetch[c].pc = "cooldown"
                  /\ fetch[c].sleep = CooldownUnits * TimeScale
                  /\ fetch[c].outcome = "pending"
                  /\ c \in SlotHolders
                  /\ sem[ParserOf(c)].value = max_workers - Cardinality(SlotHolders)
               \/ /\ fetch[c].pc = "done"
                  /\ fetch[c].sleep = 0
                  /\ fetch[c].outcome = "Exhausted"

\* The last attempt was answered 429: the call sleeps with its slot while
\* another call waits for one.
C36_Witness ==
    \E c, d \in DirectCalls :
        /\ fetch[c].pc = "cooldown"
        /\ fetch[c].attempt = MaxAttempts
        /\ fetch[d].pc = "acquire"

====
